---- MODULE Spec2Model ----
(***************************************************************************)
(* Verification model of the Meme Master Pro wallet manager (mx7625MX/TWO). *)
(*                                                                         *)
(* Strings are sequences of character codes; ASCII text is a sequence of  *)
(* ASCII codes.  Binary data (WordArray, Buffer) are sequences of bytes.   *)
(*                                                                         *)
(* crypto-js, ethers and @solana/web3.js are libraries outside the         *)
(* repository.  PBKDF2 and the AES block transform are represented by      *)
(* deterministic stand-ins (a keyed byte-wise permutation of 16-byte       *)
(* blocks); everything the repository's own code does around them          *)
(* (framing, word slicing, padding removal, UTF-8 decoding, the empty      *)
(* checks, the error wrapping) is modelled as written.                     *)
(***************************************************************************)
EXTENDS Integers, Sequences, FiniteSets, TLC

(***************************************************************************)
(* Byte and string helpers                                                 *)
(***************************************************************************)

\* n copies of the byte b
Rep(b, n) == [i \in 1..n |-> b]

\* the sequence that repeats the pattern pat cyclically up to length n
Cycle(pat, n) == [i \in 1..n |-> pat[((i - 1) % Len(pat)) + 1]]

RECURSIVE Xor(_, _)
\* bitwise exclusive or of two bytes
Xor(a, b) ==
  IF a = 0 THEN b
  ELSE IF b = 0 THEN a
  ELSE (((a % 2) + (b % 2)) % 2) + 2 * Xor(a \div 2, b \div 2)

XorBlock(x, y) == [i \in 1..Len(x) |-> Xor(x[i], y[i])]

\* JavaScript truthiness of a string: the empty string is falsy
Truthy(s) == Len(s) > 0

(***************************************************************************)
(* Base64 (CryptoJS.enc.Base64)                                            *)
(***************************************************************************)

\* ASCII code of the Base64 digit with value v (0..63)
B64Char(v) ==
  IF v < 26 THEN 65 + v
  ELSE IF v < 52 THEN 97 + (v - 26)
  ELSE IF v < 62 THEN 48 + (v - 52)
  ELSE IF v = 62 THEN 43 ELSE 47

\* value of a Base64 digit given its ASCII code; characters outside the
\* alphabet contribute zero bits, as the reverse map lookup does
B64Val(c) ==
  IF c >= 65 /\ c <= 90 THEN c - 65
  ELSE IF c >= 97 /\ c <= 122 THEN c - 97 + 26
  ELSE IF c >= 48 /\ c <= 57 THEN c - 48 + 52
  ELSE IF c = 43 THEN 62
  ELSE IF c = 47 THEN 63 ELSE 0

\* byte i of bytes, zero beyond the end
ByteAt(bytes, i) == IF i >= 1 /\ i <= Len(bytes) THEN bytes[i] ELSE 0

\* WordArray.toString(CryptoJS.enc.Base64)
Base64Stringify(bytes) ==
  LET n == Len(bytes)
      groups == (n + 2) \div 3
      triplet(g) == ByteAt(bytes, 3 * g - 2) * 65536
                    + ByteAt(bytes, 3 * g - 1) * 256
                    + ByteAt(bytes, 3 * g)
      digit(g, j) == (triplet(g) \div (IF j = 0 THEN 262144
                                        ELSE IF j = 1 THEN 4096
                                        ELSE IF j = 2 THEN 64 ELSE 1)) % 64
      \* a digit is emitted while its first bit lies inside the data
      emitted(g, j) == (3 * (g - 1)) * 4 + j * 3 < n * 4
  IN [k \in 1..(4 * groups) |->
        LET g == ((k - 1) \div 4) + 1
            j == (k - 1) % 4
        IN IF emitted(g, j) THEN B64Char(digit(g, j)) ELSE 61]

\* number of characters before the first padding character
B64DataLen(str) ==
  LET pads == { i \in 1..Len(str) : str[i] = 61 }
  IN IF pads = {} THEN Len(str)
     ELSE (CHOOSE i \in pads : \A j \in pads : i <= j) - 1

\* CryptoJS.enc.Base64.parse
Base64Parse(str) ==
  LET m == B64DataLen(str)
      n == (m * 3) \div 4
      val(k) == IF k >= 1 /\ k <= m THEN B64Val(str[k]) ELSE 0
      quad(g) == val(4 * g - 3) * 262144 + val(4 * g - 2) * 4096
                 + val(4 * g - 1) * 64 + val(4 * g)
  IN [i \in 1..n |->
        LET g == ((i - 1) \div 3) + 1
            j == (i - 1) % 3
        IN (quad(g) \div (IF j = 0 THEN 65536 ELSE IF j = 1 THEN 256 ELSE 1)) % 256]

(***************************************************************************)
(* UTF-8 (CryptoJS.enc.Utf8)                                               *)
(***************************************************************************)

IsCont(b) == b >= 128 /\ b <= 191

\* length of the sequence a lead byte announces; 0 for a byte that cannot
\* start a sequence
Utf8SeqLen(b) ==
  IF b < 128 THEN 1
  ELSE IF b >= 194 /\ b <= 223 THEN 2
  ELSE IF b >= 224 /\ b <= 239 THEN 3
  ELSE IF b >= 240 /\ b <= 244 THEN 4
  ELSE 0

\* TRUE iff bytes is well-formed UTF-8; Utf8.stringify throws
\* 'Malformed UTF-8 data' otherwise.  Every byte that is not a continuation
\* byte starts a sequence, followed by exactly the announced number of
\* continuation bytes.
Utf8WellFormed(bytes) ==
  LET n == Len(bytes)
  IN /\ (n > 0 => ~IsCont(bytes[1]))
     /\ \A i \in 1..n :
          LET b == bytes[i]
              l == Utf8SeqLen(b)
              c1 == ByteAt(bytes, i + 1)
          IN IsCont(b)
             \/ /\ l > 0
                /\ i + l - 1 <= n
                /\ \A k \in 1..(l - 1) : IsCont(bytes[i + k])
                /\ (i + l <= n => ~IsCont(bytes[i + l]))
                /\ (b = 224 => c1 >= 160)
                /\ (b = 237 => c1 <= 159)
                /\ (b = 240 => c1 >= 144)
                /\ (b = 244 => c1 <= 143)

\* the UTF-8 bytes of one character (a code point below 65536)
Utf8Char(c) ==
  IF c < 128 THEN <<c, -1, -1>>
  ELSE IF c < 2048 THEN <<192 + (c \div 64), 128 + (c % 64), -1>>
  ELSE <<224 + (c \div 4096), 128 + ((c \div 64) % 64), 128 + (c % 64)>>

\* CryptoJS.enc.Utf8.parse: the bytes of a string
Utf8Parse(str) ==
  LET slots == [k \in 1..(3 * Len(str)) |-> Utf8Char(str[((k - 1) \div 3) + 1])[((k - 1) % 3) + 1]]
  IN SelectSeq(slots, LAMBDA b : b >= 0)

\* the character whose sequence starts at byte i
Utf8CharAt(bytes, i) ==
  LET b == bytes[i]
      l == Utf8SeqLen(b)
      low(k) == ByteAt(bytes, i + k) % 64
  IN IF l = 1 THEN b
     ELSE IF l = 2 THEN (b % 32) * 64 + low(1)
     ELSE IF l = 3 THEN (b % 16) * 4096 + low(1) * 64 + low(2)
     ELSE (b % 8) * 262144 + low(1) * 4096 + low(2) * 64 + low(3)

\* CryptoJS.enc.Utf8.stringify of well-formed bytes
Utf8Stringify(bytes) ==
  LET starts == SelectSeq([i \in 1..Len(bytes) |-> i], LAMBDA i : ~IsCont(bytes[i]))
  IN [k \in 1..Len(starts) |-> Utf8CharAt(bytes, starts[k])]

(***************************************************************************)
(* Library primitives: PBKDF2 and the AES block transform (stand-ins)      *)
(***************************************************************************)

SaltBytes == 16
IvBytes == 16
BlockBytes == 16
KeyBytes == 32
Iterations == 100000

RECURSIVE Mix(_, _, _)
\* running digest of a byte sequence
Mix(bytes, i, h) ==
  IF i > Len(bytes) \/ h < 0 THEN h
  ELSE Mix(bytes, i + 1, (h * 31 + bytes[i] + 1) % 65521)

\* CryptoJS.PBKDF2(password, salt, {keySize: 256/32, iterations: 100000}):
\* a 32-byte key that is a function of the password and the salt
PBKDF2(password, salt) ==
  LET h == Mix(salt, 1, Mix(password, 1, Iterations % 65521))
  IN [i \in 1..KeyBytes |->
        ((((h + 97 * i) % 251) * (((h \div 3) + 13 * i) % 241)) + h) % 256]

\* the block transform under key: a keyed permutation of 16-byte blocks
BlockEncrypt(key, block) ==
  LET sub == [i \in 1..BlockBytes |-> (block[i] + key[i] + key[i + 16]) % 256]
  IN [i \in 1..BlockBytes |-> sub[(i % BlockBytes) + 1]]

\* the inverse permutation
BlockDecrypt(key, block) ==
  LET rot == [i \in 1..BlockBytes |-> block[((i + BlockBytes - 2) % BlockBytes) + 1]]
  IN [i \in 1..BlockBytes |-> (rot[i] + 512 - key[i] - key[i + 16]) % 256]

NthBlock(bytes, b) == SubSeq(bytes, BlockBytes * (b - 1) + 1, BlockBytes * b)

\* CryptoJS.pad.Pkcs7.pad
Pkcs7Pad(bytes) ==
  LET n == BlockBytes - (Len(bytes) % BlockBytes)
  IN bytes \o Rep(n, n)

\* CryptoJS.pad.Pkcs7.unpad: the last byte is taken as the padding length and
\* subtracted from sigBytes; the padding bytes are not inspected.  A
\* WordArray whose sigBytes is not positive stringifies to the empty string.
Pkcs7Unpad(bytes) ==
  LET n == IF Len(bytes) = 0 THEN 0 ELSE bytes[Len(bytes)]
      sig == Len(bytes) - n
  IN IF sig <= 0 THEN << >> ELSE SubSeq(bytes, 1, sig)

RECURSIVE CbcEncryptFrom(_, _, _, _)
CbcEncryptFrom(key, prev, padded, b) ==
  IF BlockBytes * b > Len(padded) THEN << >>
  ELSE LET c == BlockEncrypt(key, XorBlock(NthBlock(padded, b), prev))
       IN c \o CbcEncryptFrom(key, c, padded, b + 1)

\* CryptoJS.AES.encrypt(text, key, {iv, mode: CBC, padding: Pkcs7}).ciphertext
AesCbcEncrypt(plain, key, iv) == CbcEncryptFrom(key, iv, Pkcs7Pad(plain), 1)

RECURSIVE CbcDecryptFrom(_, _, _, _)
CbcDecryptFrom(key, prev, data, b) ==
  IF BlockBytes * b > Len(data) THEN << >>
  ELSE LET c == NthBlock(data, b)
       IN XorBlock(BlockDecrypt(key, c), prev) \o CbcDecryptFrom(key, c, data, b + 1)

\* CryptoJS.AES.decrypt(params, key, {iv, mode: CBC, padding: Pkcs7}): a
\* trailing partial block is processed zero-extended and cut back to the
\* data length before the padding is removed
AesCbcDecrypt(cipher, key, iv) ==
  LET n == Len(cipher)
      full == ((n + BlockBytes - 1) \div BlockBytes) * BlockBytes
      data == cipher \o Rep(0, full - n)
  IN Pkcs7Unpad(SubSeq(CbcDecryptFrom(key, iv, data, 1), 1, n))

(***************************************************************************)
(* cryptoUtils.ts                                                          *)
(***************************************************************************)

Ok(v) == [ok |-> TRUE, value |-> v, error |-> ""]
Err(msg) == [ok |-> FALSE, value |-> << >>, error |-> msg]

\* words[from..to) of a WordArray given as bytes: four bytes per word
WordSlice(bytes, from, to) ==
  LET words == (Len(bytes) + 3) \div 4
      hi == IF to < words THEN to ELSE words
  IN IF from >= hi THEN << >>
     ELSE [i \in 1..(4 * (hi - from)) |-> ByteAt(bytes, 4 * from + i)]

\* an encrypt without the checks for empty arguments
encryptUnchecked(privateKey, password, salt, iv) ==
  LET key == PBKDF2(Utf8Parse(password), salt)
      ciphertext == AesCbcEncrypt(Utf8Parse(privateKey), key, iv)
      combined == salt \o iv \o ciphertext
  IN Ok(Base64Stringify(combined))

\* encrypt(privateKey, password) with the salt and the IV that
\* WordArray.random returned
encrypt(privateKey, password, salt, iv) ==
  IF ~Truthy(privateKey) THEN Err("encrypt failed: private key empty")
  ELSE IF ~Truthy(password) THEN Err("encrypt failed: password empty")
  ELSE LET key == PBKDF2(Utf8Parse(password), salt)
           ciphertext == AesCbcEncrypt(Utf8Parse(privateKey), key, iv)
           combined == salt \o iv \o ciphertext
       IN Ok(Base64Stringify(combined))

\* decrypt with the IV taken from words 0..4, where the salt lies
decryptIvFromSaltWords(encryptedKey, password) ==
  IF ~Truthy(encryptedKey) THEN Err("decrypt failed: encrypted data empty")
  ELSE IF ~Truthy(password) THEN Err("decrypt failed: password empty")
  ELSE LET combined == Base64Parse(encryptedKey)
           words == (Len(combined) + 3) \div 4
           salt == WordSlice(combined, 0, 4)
           iv == WordSlice(combined, 0, 4)
           ciphertext == WordSlice(combined, 8, words)
           key == PBKDF2(Utf8Parse(password), salt)
           decrypted == AesCbcDecrypt(ciphertext, key, iv)
       IN IF ~Utf8WellFormed(decrypted)
            THEN Err("decrypt failed: Malformed UTF-8 data")
          ELSE IF ~Truthy(Utf8Stringify(decrypted))
            THEN Err("decrypt failed: password may be incorrect")
          ELSE Ok(Utf8Stringify(decrypted))

\* decrypt(encryptedKey, password)
decrypt(encryptedKey, password) ==
  IF ~Truthy(encryptedKey) THEN Err("decrypt failed: encrypted data empty")
  ELSE IF ~Truthy(password) THEN Err("decrypt failed: password empty")
  ELSE LET combined == Base64Parse(encryptedKey)
           words == (Len(combined) + 3) \div 4
           salt == WordSlice(combined, 0, 4)
           iv == WordSlice(combined, 4, 8)
           ciphertext == WordSlice(combined, 8, words)
           key == PBKDF2(Utf8Parse(password), salt)
           decrypted == AesCbcDecrypt(ciphertext, key, iv)
       IN IF ~Utf8WellFormed(decrypted)
            THEN Err("decrypt failed: Malformed UTF-8 data")
          ELSE IF ~Truthy(Utf8Stringify(decrypted))
            THEN Err("decrypt failed: password may be incorrect")
          ELSE Ok(Utf8Stringify(decrypted))

(***************************************************************************)
(* Character classes and string helpers of the manager                     *)
(***************************************************************************)

IsUpper(c) == c >= 65 /\ c <= 90
IsLower(c) == c >= 97 /\ c <= 122
IsDigit(c) == c >= 48 /\ c <= 57
IsAlnum(c) == IsUpper(c) \/ IsLower(c) \/ IsDigit(c)

\* white space removed by String.prototype.trim
IsSpace(c) == c \in {9, 10, 11, 12, 13, 32, 160}

\* some character of str satisfies the class: /[class]/.test(str)
Has(str, Class(_)) == \E i \in 1..Len(str) : Class(str[i])

\* String.prototype.trim
Trim(str) ==
  LET keep == { i \in 1..Len(str) : ~IsSpace(str[i]) }
  IN IF keep = {} THEN << >>
     ELSE LET lo == CHOOSE i \in keep : \A j \in keep : i <= j
              hi == CHOOSE i \in keep : \A j \in keep : i >= j
          IN SubSeq(str, lo, hi)

\* the value of a property that the object does not have
Undefined == <<-1>>

\* the network tags
BSC == <<66, 83, 67>>
Solana == <<83, 111, 108, 97, 110, 97>>

(***************************************************************************)
(* Key material: ethers.Wallet and @solana/web3.js Keypair (stand-ins)     *)
(***************************************************************************)

HexVal(c) ==
  IF IsDigit(c) THEN c - 48
  ELSE IF c >= 97 /\ c <= 102 THEN c - 87
  ELSE IF c >= 65 /\ c <= 70 THEN c - 55 ELSE 0

HexDigit(v) == IF v < 10 THEN 48 + v ELSE 97 + (v - 10)

\* "0x" followed by 64 hexadecimal digits: the private key of key material k
HexKey(k) == <<48, 120>> \o [i \in 1..64 |-> HexDigit((k * 7 + i * (k + 2)) % 16)]

\* wallet.address of new ethers.Wallet(privateKey): "0x" and 40 hexadecimal
\* digits determined by the 32 key bytes (case of the key digits ignored)
BSCAddressOf(privateKey) ==
  <<48, 120>> \o
  [i \in 1..40 |->
     LET v == (HexVal(privateKey[2 + i]) * 7 + HexVal(privateKey[26 + i]) * 3
               + HexVal(privateKey[((i * 5) % 64) + 3]) + i) % 16
     IN IF v >= 10 /\ i % 3 = 0 THEN 65 + (v - 10) ELSE HexDigit(v)]

\* the 32-byte seed of key material k
SolSeed(k) == [i \in 1..32 |-> (k * 41 + i * i * 3 + i * k) % 256]

\* the public key of a seed
SolPublicKey(seed) ==
  [i \in 1..32 |-> (seed[i] * 5 + seed[(i % 32) + 1] * 3 + seed[((i * 7) % 32) + 1] + i) % 256]

\* keypair.secretKey: seed followed by public key, 64 bytes
SolSecretKey(seed) == seed \o SolPublicKey(seed)

\* character number v of the Base58 alphabet
B58Char(v) ==
  IF v < 9 THEN 49 + v                       \* 1..9
  ELSE IF v < 17 THEN 65 + (v - 9)           \* A..H
  ELSE IF v < 22 THEN 74 + (v - 17)          \* J..N
  ELSE IF v < 33 THEN 80 + (v - 22)          \* P..Z
  ELSE IF v < 44 THEN 97 + (v - 33)          \* a..k
  ELSE 109 + (v - 44)                        \* m..z

\* publicKey.toBase58(): 44 characters of the Base58 alphabet determined by
\* the 32 bytes
ToBase58(pub) ==
  [i \in 1..44 |-> B58Char((pub[((i - 1) % 32) + 1] + pub[((i * 3) % 32) + 1] * 2 + i) % 58)]

\* Buffer.from(bytes).toString('base64')
BufferToBase64(bytes) == Base64Stringify(bytes)

\* twelve two-letter words separated by spaces: the phrase of entropy e
MnemonicPhrase(e) ==
  [i \in 1..35 |->
     LET w == (i - 1) \div 3
         j == (i - 1) % 3
     IN IF j = 2 THEN 32
        ELSE IF j = 0 THEN 97 + ((e * 5 + w * 3) % 26)
        ELSE 97 + ((e + w * w) % 26)]

(***************************************************************************)
(* WalletManager                                                           *)
(***************************************************************************)

MIN_PASSWORD_LENGTH == 10

\* validatePasswordStrength with a smaller minimum length
validatePasswordStrengthMin8(password) ==
  /\ ~(Len(password) < 8)
  /\ Has(password, IsUpper)
  /\ Has(password, IsLower)
  /\ Has(password, IsDigit)
  /\ Has(password, LAMBDA c : ~IsAlnum(c))

\* WalletManager.validatePasswordStrength
validatePasswordStrength(password) ==
  /\ ~(Len(password) < MIN_PASSWORD_LENGTH)
  /\ Has(password, IsUpper)
  /\ Has(password, IsLower)
  /\ Has(password, IsDigit)
  /\ Has(password, LAMBDA c : ~IsAlnum(c))

\* new WalletManager(encryptionPassword): the instance's encryptionKey, or the
\* error thrown
NewWalletManager(encryptionPassword) ==
  IF ~Truthy(encryptionPassword) \/ Trim(encryptionPassword) = << >>
    THEN Err("encryption password required")
  ELSE IF ~validatePasswordStrength(encryptionPassword)
    THEN Err("password strength insufficient")
  ELSE Ok(encryptionPassword)

\* the address and private key a new wallet of the network gets from key
\* material k (ethers.Wallet.createRandom, Keypair.generate)
GenerateKey(network, k) ==
  IF network = BSC
    THEN [ok |-> TRUE, address |-> BSCAddressOf(HexKey(k)), privateKey |-> HexKey(k)]
  ELSE IF network = Solana
    THEN [ok |-> TRUE, address |-> ToBase58(SolPublicKey(SolSeed(k))),
          privateKey |-> BufferToBase64(SolSecretKey(SolSeed(k)))]
  ELSE [ok |-> FALSE, address |-> Undefined, privateKey |-> Undefined]

\* encryptPrivateKey: encrypt under the instance's password
encryptPrivateKey(encryptionKey, privateKey, salt, iv) ==
  LET r == encrypt(privateKey, encryptionKey, salt, iv)
  IN IF r.ok THEN r ELSE Err("encrypt private key failed")

\* decryptPrivateKey: decrypt under the instance's password
decryptPrivateKey(encryptionKey, encryptedKey) ==
  LET r == decrypt(encryptedKey, encryptionKey)
  IN IF r.ok THEN r ELSE Err("decrypt private key failed")

\* a thrown error, as a wallet result
WalletError(msg) ==
  [ok |-> FALSE, error |-> msg, id |-> Undefined, name |-> Undefined,
   address |-> Undefined, network |-> Undefined, privateKey |-> Undefined,
   mnemonic |-> Undefined, encrypted_key |-> Undefined]

\* createWallet(name, network) with the values the random sources returned:
\* uuid, key material k, salt, IV and mnemonic entropy e
createWallet(encryptionKey, name, network, uuid, k, salt, iv, e) ==
  LET gen == GenerateKey(network, k)
  IN IF ~gen.ok THEN WalletError("create wallet failed: unsupported network")
     ELSE LET enc == encryptPrivateKey(encryptionKey, gen.privateKey, salt, iv)
          IN IF ~enc.ok THEN WalletError("create wallet failed: encrypt private key failed")
             ELSE [ok |-> TRUE, error |-> "", id |-> uuid, name |-> name,
                   address |-> gen.address, network |-> network,
                   privateKey |-> Undefined,
                   mnemonic |-> MnemonicPhrase(e),
                   encrypted_key |-> enc.value]

(***************************************************************************)
(* WalletManager.importWallet                                              *)
(***************************************************************************)

\* JavaScript truthiness of a string that may be undefined
Present(v) == v # Undefined /\ Len(v) > 0

\* String.prototype.toLowerCase on the ASCII letters
ToLowerCase(str) == [i \in 1..Len(str) |-> IF IsUpper(str[i]) THEN str[i] + 32 ELSE str[i]]

\* cleanKey.startsWith('0x')
StartsWith0x(str) == Len(str) >= 2 /\ str[1] = 48 /\ str[2] = 120

IsHexDigit(c) == IsDigit(c) \/ (c >= 97 /\ c <= 102) \/ (c >= 65 /\ c <= 70)

\* new ethers.Wallet(key) accepts the scalars 1 .. n-1 of secp256k1: zero is
\* refused, and so is every key whose upper 128 bits are all ones
ValidScalar(cleanKey) ==
  /\ \E i \in 3..66 : HexVal(cleanKey[i]) # 0
  /\ \E i \in 3..34 : HexVal(cleanKey[i]) # 15

\* the outcome of an import step: address and private key, or the error thrown
Imported(address, privateKey) ==
  [ok |-> TRUE, error |-> "", address |-> address, privateKey |-> privateKey]
ImportError(msg) ==
  [ok |-> FALSE, error |-> msg, address |-> Undefined, privateKey |-> Undefined]

\* an import that takes the key as typed, without trimming it
importBSCPrivateKeyUntrimmed(privateKey) ==
  LET cleanKey == IF StartsWith0x(privateKey) THEN privateKey ELSE <<48, 120>> \o privateKey
  IN IF Len(cleanKey) # 66 THEN ImportError("BSC private key length invalid")
     ELSE IF \E i \in 3..66 : ~IsHexDigit(cleanKey[i])
       THEN ImportError("BSC private key format invalid")
     ELSE IF ~ValidScalar(cleanKey) THEN ImportError("invalid BSC private key")
     ELSE Imported(BSCAddressOf(cleanKey), ToLowerCase(cleanKey))

\* importBSCPrivateKey: trim, add a missing 0x, check length and digits, and
\* let ethers build the wallet
importBSCPrivateKey(privateKey) ==
  LET trimmed == Trim(privateKey)
      cleanKey == IF StartsWith0x(trimmed) THEN trimmed ELSE <<48, 120>> \o trimmed
  IN IF Len(cleanKey) # 66 THEN ImportError("BSC private key length invalid")
     ELSE IF \E i \in 3..66 : ~IsHexDigit(cleanKey[i])
       THEN ImportError("BSC private key format invalid")
     ELSE IF ~ValidScalar(cleanKey) THEN ImportError("invalid BSC private key")
     ELSE Imported(BSCAddressOf(cleanKey), ToLowerCase(cleanKey))

\* value of a character in Node's base64 decoder (both alphabets), -1 if none
NodeB64Val(c) ==
  IF c = 45 THEN 62 ELSE IF c = 95 THEN 63
  ELSE IF IsAlnum(c) \/ c = 43 \/ c = 47 THEN B64Val(c) ELSE -1

\* Buffer.from(str, 'base64'): never throws; decoding stops at the first '=',
\* characters outside the alphabets are skipped
BufferFromBase64(str) ==
  LET stop == IF \E i \in 1..Len(str) : str[i] = 61
                THEN CHOOSE i \in 1..Len(str) :
                       str[i] = 61 /\ \A j \in 1..(i - 1) : str[j] # 61
                ELSE Len(str) + 1
      data == SelectSeq(SubSeq(str, 1, stop - 1), LAMBDA c : NodeB64Val(c) >= 0)
      n == (Len(data) * 6) \div 8
      Sextet(k) == IF k <= Len(data) THEN NodeB64Val(data[k]) ELSE 0
  IN [i \in 1..n |->
        LET g == ((i - 1) \div 3) * 4
            j == (i - 1) % 3
        IN IF j = 0 THEN (Sextet(g + 1) * 4 + (Sextet(g + 2) \div 16)) % 256
           ELSE IF j = 1 THEN ((Sextet(g + 2) % 16) * 16 + (Sextet(g + 3) \div 4)) % 256
           ELSE ((Sextet(g + 3) % 4) * 64 + Sextet(g + 4)) % 256]

importSolanaPrivateKey(privateKey) ==
  LET secretKey == BufferFromBase64(privateKey)
  IN IF Len(secretKey) # 64 THEN ImportError("Solana private key length invalid")
     ELSE IF SubSeq(secretKey, 33, 64) # SolPublicKey(SubSeq(secretKey, 1, 32))
       THEN ImportError("invalid Solana private key")
     ELSE Imported(ToBase58(SubSeq(secretKey, 33, 64)), BufferToBase64(secretKey))

importFromPrivateKey(network, privateKey) ==
  LET r == IF network = BSC THEN importBSCPrivateKey(privateKey)
           ELSE IF network = Solana THEN importSolanaPrivateKey(privateKey)
           ELSE ImportError("unsupported network")
  IN IF r.ok THEN r ELSE ImportError("private key import failed")

\* bip39.validateMnemonic: the phrases the word list and checksum admit
validateMnemonic(phrase) == \E e \in 0..25 : phrase = MnemonicPhrase(e)

\* the BIP44 default paths m/44'/60'/0'/0/0 and m/44'/501'/0'/0'
DefaultBSCPath == <<109, 47, 52, 52, 39, 47, 54, 48, 39, 47, 48, 39, 47, 48, 47, 48>>
DefaultSolanaPath == <<109, 47, 52, 52, 39, 47, 53, 48, 49, 39, 47, 48, 39, 47, 48, 39>>

\* a derivation path must start at the master node
ValidPath(path) == Len(path) >= 1 /\ path[1] = 109

\* the private key HDNodeWallet derives from a phrase along a path:
\* "0x" and 64 hexadecimal digits, a function of both
HdPrivateKey(phrase, path) ==
  LET h == Mix(path, 1, Mix(phrase, 1, 7))
  IN <<48, 120>> \o [i \in 1..64 |-> HexDigit((h + i * ((h % 13) + 1) + ((i * i) % 7)) % 16)]

\* Buffer.from(hex, 'hex') of a "0x"-prefixed key: its 32 bytes
HexToBytes(key) == [i \in 1..32 |-> HexVal(key[2 * i + 1]) * 16 + HexVal(key[2 * i + 2])]

importBSCFromMnemonic(phrase, derivationPath) ==
  LET path == IF Present(derivationPath) THEN derivationPath ELSE DefaultBSCPath
  IN IF ~ValidPath(path) THEN ImportError("create BSC wallet from mnemonic failed")
     ELSE LET key == HdPrivateKey(phrase, path)
          IN Imported(BSCAddressOf(key), key)

importSolanaFromMnemonic(phrase, derivationPath) ==
  LET path == IF Present(derivationPath) THEN derivationPath ELSE DefaultSolanaPath
  IN IF ~ValidPath(path) THEN ImportError("create Solana wallet from mnemonic failed")
     ELSE LET seed32 == HexToBytes(HdPrivateKey(phrase, path))
          IN Imported(ToBase58(SolPublicKey(seed32)), BufferToBase64(SolSecretKey(seed32)))

importFromMnemonic(network, mnemonic, derivationPath) ==
  LET cleanMnemonic == ToLowerCase(Trim(mnemonic))
      r == IF ~validateMnemonic(cleanMnemonic) THEN ImportError("invalid mnemonic")
           ELSE IF network = BSC THEN importBSCFromMnemonic(cleanMnemonic, derivationPath)
           ELSE IF network = Solana
             THEN importSolanaFromMnemonic(cleanMnemonic, derivationPath)
           ELSE ImportError("unsupported network")
  IN IF r.ok THEN r ELSE ImportError("mnemonic import failed")

\* an import whose mnemonic derivation takes the instance's password as the
\* passphrase of the seed
importWalletPassphrase(encryptionKey, name, network, importData, importType, derivationPath, uuid, salt, iv) ==
  LET type == IF importType = "undefined" THEN "privateKey" ELSE importType
      r == IF type = "privateKey" THEN importFromPrivateKey(network, importData)
           ELSE IF type = "mnemonic"
             THEN importFromMnemonic(network, importData, <<109, 47, encryptionKey[1]>>)
           ELSE ImportError("unsupported import type")
  IN IF ~r.ok THEN WalletError("import wallet failed")
     ELSE LET enc == encryptPrivateKey(encryptionKey, r.privateKey, salt, iv)
          IN IF ~enc.ok THEN WalletError("import wallet failed: encrypt private key failed")
             ELSE [ok |-> TRUE, error |-> "", id |-> uuid, name |-> name,
                   address |-> r.address, network |-> network,
                   privateKey |-> r.privateKey,
                   mnemonic |-> Undefined,
                   encrypted_key |-> enc.value]

\* importWallet(name, network, importData, importType, derivationPath) with
\* the values the random sources returned; an importType of undefined takes
\* the parameter's default 'privateKey'
importWallet(encryptionKey, name, network, importData, importType, derivationPath, uuid, salt, iv) ==
  LET type == IF importType = "undefined" THEN "privateKey" ELSE importType
      r == IF type = "privateKey" THEN importFromPrivateKey(network, importData)
           ELSE IF type = "mnemonic"
             THEN importFromMnemonic(network, importData, derivationPath)
           ELSE ImportError("unsupported import type")
  IN IF ~r.ok THEN WalletError("import wallet failed")
     ELSE LET enc == encryptPrivateKey(encryptionKey, r.privateKey, salt, iv)
          IN IF ~enc.ok THEN WalletError("import wallet failed: encrypt private key failed")
             ELSE [ok |-> TRUE, error |-> "", id |-> uuid, name |-> name,
                   address |-> r.address, network |-> network,
                   privateKey |-> r.privateKey,
                   mnemonic |-> Undefined,
                   encrypted_key |-> enc.value]

\* recoverBSCWallet(privateKey): the address of new ethers.Wallet(privateKey),
\* which takes the key with or without 0x
recoverBSCWallet(privateKey) ==
  LET key == IF StartsWith0x(privateKey) THEN privateKey ELSE <<48, 120>> \o privateKey
  IN IF Len(key) # 66 \/ (\E i \in 3..Len(key) : ~IsHexDigit(key[i]))
       THEN Err("recover BSC wallet failed")
     ELSE IF ~ValidScalar(key) THEN Err("recover BSC wallet failed")
     ELSE Ok(BSCAddressOf(key))

\* a recovery that takes the first half of the secret key for the public key
recoverSolanaWalletFromSeed(privateKeyBase64) ==
  LET secretKey == BufferFromBase64(privateKeyBase64)
  IN IF Len(secretKey) # 64 THEN Err("recover Solana wallet failed")
     ELSE Ok(ToBase58(SubSeq(secretKey, 1, 32)))

\* recoverSolanaWallet(privateKeyBase64): the Base58 public key of
\* Keypair.fromSecretKey(Buffer.from(privateKeyBase64, 'base64'))
recoverSolanaWallet(privateKeyBase64) ==
  LET secretKey == BufferFromBase64(privateKeyBase64)
  IN IF Len(secretKey) # 64 THEN Err("recover Solana wallet failed")
     ELSE IF SubSeq(secretKey, 33, 64) # SolPublicKey(SubSeq(secretKey, 1, 32))
       THEN Err("recover Solana wallet failed")
     ELSE Ok(ToBase58(SubSeq(secretKey, 33, 64)))

(***************************************************************************)
(* WalletDatabase: the wallets table                                       *)
(***************************************************************************)

MAX_WALLETS == 100

\* the decimal digits of a number below 1000
Decimal(n) ==
  IF n < 10 THEN <<48 + n>>
  ELSE IF n < 100 THEN <<48 + (n \div 10), 48 + (n % 10)>>
  ELSE <<48 + (n \div 100), 48 + ((n \div 10) % 10), 48 + (n % 10)>>

\* `wallet_${Date.now()}_${Math.random().toString(36).substr(2, 9)}` at time
\* t when Math.random returned number rnd
WalletId(t, rnd) ==
  <<119, 97, 108, 108, 101, 116, 95>> \o Decimal(t) \o <<95>> \o Rep(96 + rnd, 9)

\* the columns of the wallets table
Columns == {"id", "name", "address", "network", "encrypted_key", "created_at"}

\* insertWallet(wallet) at time t: the id is the primary key, the only
\* uniqueness the table declares; an insert that violates it throws
insertWallet(rows, wallet, t, rnd) ==
  LET id == WalletId(t, rnd)
  IN IF \E r \in rows : r.id = id
       THEN [ok |-> FALSE, error |-> "wallet address already exists",
             rows |-> rows, id |-> Undefined]
       ELSE [ok |-> TRUE, error |-> "",
             rows |-> rows \cup {[id |-> id, name |-> wallet.name,
                                  address |-> wallet.address,
                                  network |-> wallet.network,
                                  encrypted_key |-> wallet.encrypted_key,
                                  created_at |-> t]},
             id |-> id]

\* getWalletByAddress(address) finds a row: wallet || null is not null
getWalletByAddress(rows, address) == \E r \in rows : r.address = address

\* getWalletById(id) finds a row
getWalletById(rows, id) == \E r \in rows : r.id = id

\* an update that also moves created_at
updateWalletNameTouching(rows, id, name) ==
  [rows |-> { IF r.id = id THEN [r EXCEPT !.name = name, !.created_at = r.created_at + 1] ELSE r : r \in rows },
   changed |-> \E r \in rows : r.id = id]

\* updateWalletName(id, name): the rows afterwards and result.changes > 0
updateWalletName(rows, id, name) ==
  [rows |-> { IF r.id = id THEN [r EXCEPT !.name = name] ELSE r : r \in rows },
   changed |-> \E r \in rows : r.id = id]

\* a delete that reports the change and leaves the row
deleteWalletKeeping(rows, id) ==
  [rows |-> rows,
   changed |-> \E r \in rows : r.id = id]

\* deleteWallet(id): the rows afterwards and result.changes > 0
deleteWallet(rows, id) ==
  [rows |-> { r \in rows : r.id # id },
   changed |-> \E r \in rows : r.id = id]

(***************************************************************************)
(* IPC handlers                                                            *)
(***************************************************************************)

\* an IPCResponse
\* dataDefined: the data property is not undefined
Success(channel, data) ==
  [channel |-> channel, success |-> TRUE, error |-> "", data |-> data, dataDefined |-> TRUE]
Failure(channel, msg) ==
  [channel |-> channel, success |-> FALSE, error |-> msg, data |-> Undefined,
   dataDefined |-> FALSE]

\* what a handler handed to insertWallet, with the secrets it was made from
NotPassed ==
  [called |-> FALSE, rec |-> Undefined, privateKey |-> Undefined,
   password |-> Undefined, importData |-> Undefined]
Passed(rec, privateKey, password, importData) ==
  [called |-> TRUE, rec |-> rec, privateKey |-> privateKey,
   password |-> password, importData |-> importData]

\* the outcome of a handler: the table, the response and the insert it made
Handled(rows, response, insert) == [rows |-> rows, resp |-> response, passed |-> insert]

\* a dbInput that carries the key as it is
DbInputPlainKey(wallet) ==
  [name |-> wallet.name, address |-> wallet.address,
   network |-> wallet.network, encrypted_key |-> wallet.privateKey]

\* dbInput: the four fields the handlers copy out of the wallet result
DbInput(wallet) ==
  [name |-> wallet.name, address |-> wallet.address,
   network |-> wallet.network, encrypted_key |-> wallet.encrypted_key]

\* what a handler has when it turns to the table: the wallet result and the
\* private key behind it, or the response that ended the call
Prepared(wallet, privateKey, importData) ==
  [ok |-> TRUE, error |-> "", wallet |-> wallet, privateKey |-> privateKey,
   importData |-> importData]
Refused(msg) ==
  [ok |-> FALSE, error |-> msg, wallet |-> WalletError(msg), privateKey |-> Undefined,
   importData |-> Undefined]

\* the wallet:create handler up to the wallet result, with the values the
\* random sources returned
WalletCreatePrepare(input, uuid, k, salt, iv, e) ==
  IF ~Present(input.name) \/ ~Present(input.network) \/ ~Present(input.password)
    THEN Refused("missing required fields")
  ELSE LET m == NewWalletManager(input.password)
       IN IF ~m.ok THEN Refused(m.error)
          ELSE LET wallet == createWallet(m.value, input.name, input.network,
                                          uuid, k, salt, iv, e)
               IN IF ~wallet.ok THEN Refused(wallet.error)
                  ELSE Prepared(wallet, GenerateKey(input.network, k).privateKey, Undefined)

\* the wallet:create handler from the wallet result p on, at time t (e2: the
\* entropy of the mnemonic generated for the response)
WalletCreate(rows, input, p, t, rnd, e2) ==
  LET ch == "wallet:create"
  IN IF ~p.ok THEN Handled(rows, Failure(ch, p.error), NotPassed)
     ELSE IF getWalletByAddress(rows, p.wallet.address)
       THEN Handled(rows, Failure(ch, "wallet address already exists"), NotPassed)
     ELSE LET ins == insertWallet(rows, DbInput(p.wallet), t, rnd)
              insert == Passed(DbInput(p.wallet), p.privateKey, input.password, Undefined)
          IN IF ~ins.ok THEN Handled(rows, Failure(ch, ins.error), insert)
             ELSE Handled(ins.rows,
                          Success(ch, [id |-> ins.id, address |-> p.wallet.address,
                                       privateKey |-> p.wallet.privateKey,
                                       mnemonic |-> MnemonicPhrase(e2)]),
                          insert)

\* the wallet:import handler up to the wallet result
WalletImportPrepare(input, uuid, salt, iv) ==
  IF ~Present(input.name) \/ ~Present(input.network) \/ ~Present(input.password)
    THEN Refused("missing required fields")
  ELSE IF input.importType = "privateKey" /\ ~Present(input.privateKey)
    THEN Refused("private key required")
  ELSE IF input.importType = "mnemonic" /\ ~Present(input.mnemonic)
    THEN Refused("mnemonic required")
  ELSE LET m == NewWalletManager(input.password)
           importData == IF input.importType = "privateKey" THEN input.privateKey
                         ELSE input.mnemonic
       IN IF ~m.ok THEN Refused(m.error)
          ELSE IF importData = Undefined THEN Refused("import wallet failed")
          ELSE LET wallet == importWallet(m.value, input.name, input.network, importData,
                                          input.importType, input.derivationPath,
                                          uuid, salt, iv)
               IN IF ~wallet.ok THEN Refused(wallet.error)
                  ELSE Prepared(wallet, wallet.privateKey, importData)

\* the wallet:import handler from the wallet result p on, at time t
WalletImport(rows, input, p, t, rnd) ==
  LET ch == "wallet:import"
  IN IF ~p.ok THEN Handled(rows, Failure(ch, p.error), NotPassed)
     ELSE LET ins == insertWallet(rows, DbInput(p.wallet), t, rnd)
              insert == Passed(DbInput(p.wallet), p.privateKey, input.password, p.importData)
          IN IF ~ins.ok THEN Handled(rows, Failure(ch, ins.error), insert)
             ELSE Handled(ins.rows,
                          Success(ch, [id |-> ins.id, address |-> p.wallet.address]),
                          insert)

\* the wallet:updateName handler
WalletUpdateName(rows, id, name) ==
  LET ch == "wallet:updateName"
  IN IF ~Present(id) \/ ~Present(name)
       THEN Handled(rows, Failure(ch, "missing wallet id or name"), NotPassed)
     ELSE LET u == updateWalletName(rows, id, name)
          IN IF u.changed THEN Handled(u.rows, Success(ch, TRUE), NotPassed)
             ELSE Handled(u.rows, [channel |-> ch, success |-> FALSE,
                                   error |-> "wallet missing or update failed",
                                   data |-> FALSE, dataDefined |-> TRUE], NotPassed)

\* the wallet:delete handler
WalletDelete(rows, id) ==
  LET ch == "wallet:delete"
  IN IF ~Present(id) THEN Handled(rows, Failure(ch, "missing wallet id"), NotPassed)
     ELSE LET u == deleteWallet(rows, id)
          IN IF u.changed THEN Handled(u.rows, Success(ch, TRUE), NotPassed)
             ELSE Handled(u.rows, [channel |-> ch, success |-> FALSE,
                                   error |-> "wallet missing or delete failed",
                                   data |-> FALSE, dataDefined |-> TRUE], NotPassed)

(***************************************************************************)
(* WalletManager.validateAddress, getBalance, getBalances                  *)
(***************************************************************************)

IsLetter(c) == IsUpper(c) \/ IsLower(c)

\* ethers.isAddress: 40 hexadecimal digits, "0x" optional; digits of mixed
\* case must carry the checksum (the one BSCAddressOf writes: a letter is in
\* upper case exactly at every third position).  ICAP strings are left out.
isAddress(address) ==
  /\ address # Undefined
  /\ LET body == IF StartsWith0x(address) THEN SubSeq(address, 3, Len(address))
                 ELSE address
     IN /\ Len(body) = 40
        /\ \A i \in 1..40 : IsHexDigit(body[i])
        /\ \/ \A i \in 1..40 : ~IsUpper(body[i])
           \/ \A i \in 1..40 : ~IsLower(body[i])
           \/ \A i \in 1..40 : IsLetter(body[i]) => (IsUpper(body[i]) <=> i % 3 = 0)

\* validateAddress(address, network); a throw inside counts as false
validateAddress(address, network) ==
  IF network = BSC THEN isAddress(address)
  ELSE IF network = Solana
    THEN address # Undefined /\ Len(address) >= 32 /\ Len(address) <= 44
  ELSE FALSE

\* getBalance up to its await, without the validation
getBalanceBeginUnvalidated(address, network) ==
  IF network = BSC THEN "getBSCBalance"
  ELSE IF network = Solana THEN "getSolanaBalance"
  ELSE "throw"

\* getBalance up to its await: the collaborator it calls, or "throw"
getBalanceBegin(address, network) ==
  IF ~validateAddress(address, network) THEN "throw"
  ELSE IF network = BSC THEN "getBSCBalance"
  ELSE IF network = Solana THEN "getSolanaBalance"
  ELSE "throw"

\* the symbols 'BNB' and 'SOL'
BNB == <<66, 78, 66>>
SOL == <<83, 79, 76>>

\* the BalanceResult getBalance returns when the collaborator returned balance
BalanceResult(address, network, balance) ==
  [address |-> address, network |-> network, nativeBalance |-> balance,
   nativeSymbol |-> IF network = BSC THEN BNB ELSE SOL, tokenBalances |-> << >>]

\* a placeholder that reports one unit
PlaceholderOne(wallet) == BalanceResult(wallet.address, wallet.network, <<49>>)

\* the entry getBalances pushes when getBalance threw: balance '0'
Placeholder(wallet) == BalanceResult(wallet.address, wallet.network, <<48>>)

\* a loop that stays at the entry it is at
StayAt(i) == i

\* for (const wallet of wallets): the entry after entry i
NextEntry(i) == i + 1

(***************************************************************************)
(* The wallet:balance handler, withTimeout and the balance collaborators   *)
(***************************************************************************)

BALANCE_TIMEOUT_MS == 10000
RPC_CONNECTION_TIMEOUT == 5000
BSC_ENDPOINTS == 6

\* the messages of the handler and of getBSCBalance / getSolanaBalance
MissingParamsMessage == "missing address or network"
UnsupportedNetworkMessage == "unsupported network type"
TimeoutMessage == "balance lookup timed out, check the network connection"
InvalidAddressFormatMessage == "invalid wallet address format"
NetworkFailedMessage == "network connection failed, check the network settings"
ServerFailedMessage == "node service error, retry later"
RateLimitedMessage == "too many requests, retry later"
LookupFailedMessage == "balance lookup failed"

\* a character of the Base58 alphabet: no 0, O, I, l
IsBase58Char(c) == IsAlnum(c) /\ c \notin {48, 79, 73, 108}

\* new PublicKey(address) succeeds: Base58 text of a 32-byte key
IsPublicKey(address) ==
  /\ Len(address) >= 32 /\ Len(address) <= 44
  /\ \A i \in 1..Len(address) : IsBase58Char(address[i])

\* the collaborator's checks before its first request: the error it throws,
\* or "" when it goes on to the network
LookupRefusal(address, network) ==
  IF network = BSC
    THEN IF isAddress(address) THEN "" ELSE InvalidAddressFormatMessage
    ELSE IF IsPublicKey(address) THEN "" ELSE InvalidAddressFormatMessage

\* the kinds of failure of a request
FailureKinds == {"network", "server", "rate", "other"}

\* the message the collaborator throws for a failed request of each kind
LookupErrorMessage(network, kind) ==
  IF kind = "network" THEN NetworkFailedMessage
  ELSE IF kind = "server" THEN ServerFailedMessage
  ELSE IF kind = "rate" /\ network = Solana THEN RateLimitedMessage
  ELSE LookupFailedMessage

\* a timer that fires after twice the time
TimerDeadlineDoubled(start, timeoutMs) == start + timeoutMs + timeoutMs

\* setTimeout(..., timeoutMs) set at time start fires at
TimerDeadline(start, timeoutMs) == start + timeoutMs

\* the message of the error that getBalance's catch block throws
WrapFailure(message) == LookupFailedMessage \o ": " \o message

\* the message of getBalance's first check
InvalidAddressMessage == "invalid wallet address"

\* the error getBalance throws before it calls a collaborator
getBalanceThrown(address, network) ==
  IF ~validateAddress(address, network) THEN WrapFailure(InvalidAddressMessage)
  ELSE WrapFailure(UnsupportedNetworkMessage)

\* the reply of the wallet:balance handler at time at; byTimer: the timeout
\* promise won the race
BalanceReply(success, error, data, at, byTimer) ==
  [success |-> success, error |-> error, data |-> data, at |-> at, byTimer |-> byTimer]

\* the WalletBalance of a reply
WalletBalance(params, balance) ==
  [address |-> params.address, balance |-> balance, network |-> params.network]

(***************************************************************************)
(* The handlers that read: wallet:list, wallet:getById, wallet:balance     *)
(***************************************************************************)

\* null, as distinct from undefined
Null == <<-2>>

\* a catch block of a handler: error.message || the handler's own message
Caught(channel, message, fallback) ==
  Failure(channel, IF message # "" THEN message ELSE fallback)

\* the wallet:list handler
WalletList(rows) == Success("wallet:list", rows)

\* a handler that returns what the statement returned, without || null
WalletGetByIdRaw(rows, id) ==
  IF ~Present(id) THEN Failure("wallet:getById", "missing wallet id")
  ELSE IF getWalletById(rows, id)
    THEN Success("wallet:getById", CHOOSE r \in rows : r.id = id)
  ELSE [channel |-> "wallet:getById", success |-> TRUE, error |-> "", data |-> Undefined,
        dataDefined |-> FALSE]

\* the wallet:getById handler: the row, or null
WalletGetById(rows, id) ==
  IF ~Present(id) THEN Failure("wallet:getById", "missing wallet id")
  ELSE IF getWalletById(rows, id)
    THEN Success("wallet:getById", CHOOSE r \in rows : r.id = id)
  ELSE Success("wallet:getById", Null)

\* the wallet:balance handler, given how the race of withTimeout ended:
\* "resolved" with a balance, "rejected" with the collaborator's message, or
\* "timeout"
WalletBalanceHandler(params, race) ==
  LET ch == "wallet:balance"
  IN IF ~Present(params.address) \/ ~Present(params.network)
       THEN Failure(ch, MissingParamsMessage)
     ELSE IF params.network \notin {BSC, Solana} THEN Failure(ch, UnsupportedNetworkMessage)
     ELSE IF LookupRefusal(params.address, params.network) # ""
       THEN Caught(ch, LookupRefusal(params.address, params.network), "get balance failed")
     ELSE IF race.kind = "resolved" THEN Success(ch, WalletBalance(params, race.balance))
     ELSE IF race.kind = "rejected" THEN Caught(ch, race.message, "get balance failed")
     ELSE Caught(ch, TimeoutMessage, "get balance failed")

(***************************************************************************)
(* WalletManager.createMultipleWallets: the names                          *)
(***************************************************************************)

\* the default of the namePrefix parameter, '钱包'
DefaultPrefix == <<38065, 21253>>

\* a parameter with a default takes it when the argument is undefined
DefaultedPrefix(namePrefix) == IF namePrefix = Undefined THEN DefaultPrefix ELSE namePrefix

\* names that count from zero
MultiNameFromZero(namePrefix, i) == namePrefix \o <<95>> \o Decimal(i - 1)

\* `${namePrefix}_${i}`
MultiName(namePrefix, i) == namePrefix \o <<95>> \o Decimal(i)

(***************************************************************************)
(* Password strength score                                                 *)
(***************************************************************************)

COMMON_PASSWORDS ==
  {
    <<112, 97, 115, 115, 119, 111, 114, 100>>,               \* password
    <<112, 97, 115, 115, 119, 111, 114, 100, 49, 50, 51>>,   \* password123
    <<49, 50, 51, 52, 53, 54>>,                              \* 123456
    <<49, 50, 51, 52, 53, 54, 55, 56>>,                      \* 12345678
    <<49, 50, 51, 52, 53, 54, 55, 56, 57>>,                  \* 123456789
    <<113, 119, 101, 114, 116, 121>>,                        \* qwerty
    <<97, 98, 99, 49, 50, 51>>,                              \* abc123
    <<109, 111, 110, 107, 101, 121>>,                        \* monkey
    <<49, 50, 51, 52, 53, 54, 55>>,                          \* 1234567
    <<108, 101, 116, 109, 101, 105, 110>>,                   \* letmein
    <<116, 114, 117, 115, 116, 110, 111, 49>>,               \* trustno1
    <<100, 114, 97, 103, 111, 110>>,                         \* dragon
    <<98, 97, 115, 101, 98, 97, 108, 108>>,                  \* baseball
    <<105, 108, 111, 118, 101, 121, 111, 117>>,              \* iloveyou
    <<109, 97, 115, 116, 101, 114>>,                         \* master
    <<115, 117, 110, 115, 104, 105, 110, 101>>,              \* sunshine
    <<97, 115, 104, 108, 101, 121>>,                         \* ashley
    <<98, 97, 105, 108, 101, 121>>,                          \* bailey
    <<112, 97, 115, 115, 119, 48, 114, 100>>,                \* passw0rd
    <<115, 104, 97, 100, 111, 119>>,                         \* shadow
    <<97, 100, 109, 105, 110>>,                              \* admin
    <<119, 101, 108, 99, 111, 109, 101>>,                    \* welcome
    <<108, 111, 103, 105, 110>>,                             \* login
    <<112, 114, 105, 110, 99, 101, 115, 115>>,               \* princess
    <<115, 111, 108, 111>> }                                 \* solo

\* /(.)\1{2,}/: a character that is no line terminator, three times in a row
HasTripleRepeat(password) ==
  \E i \in 1..(Len(password) - 2) :
    /\ password[i] \notin {10, 13, 8232, 8233}
    /\ password[i + 1] = password[i]
    /\ password[i + 2] = password[i]

\* /(012|123|...|789|abc|bcd|...|xyz)/i: three ascending neighbours among the
\* digits or among the letters, case ignored
HasSequence(password) ==
  LET low == ToLowerCase(password)
  IN \E i \in 1..(Len(password) - 2) :
       /\ low[i + 1] = low[i] + 1
       /\ low[i + 2] = low[i] + 2
       /\ \/ IsDigit(low[i]) /\ IsDigit(low[i + 2])
          \/ IsLower(low[i]) /\ IsLower(low[i + 2])

\* the number of character types present
TypeCount(password) ==
  (IF Has(password, IsLower) THEN 1 ELSE 0) + (IF Has(password, IsUpper) THEN 1 ELSE 0)
  + (IF Has(password, IsDigit) THEN 1 ELSE 0)
  + (IF Has(password, LAMBDA c : ~IsAlnum(c)) THEN 1 ELSE 0)

\* the score before it is clamped
RawScore(password) ==
  (IF Len(password) >= 16 THEN 3 ELSE IF Len(password) >= 12 THEN 2
   ELSE IF Len(password) >= 8 THEN 1 ELSE 0)
  + (IF TypeCount(password) >= 4 THEN 2 ELSE IF TypeCount(password) >= 3 THEN 1 ELSE 0)
  + (IF HasTripleRepeat(password) THEN 0 ELSE 1)
  + (IF HasSequence(password) THEN 0 ELSE 1)

\* descriptions[finalScore]
StrengthDescriptions == <<"very weak", "weak", "medium", "strong", "very strong">>

\* a minimum that returns its first argument
MathMinFirst(a, b) == a

\* Math.min
MathMin(a, b) == IF a <= b THEN a ELSE b

\* validatePasswordStrength(password) of the crypto helpers: score and
\* description
validatePasswordStrengthScore(password) ==
  IF ToLowerCase(password) \in COMMON_PASSWORDS
    THEN [score |-> 0, description |-> "too common"]
  ELSE LET finalScore == MathMin(RawScore(password), 4)
       IN [score |-> finalScore,
           description |-> IF finalScore + 1 \in DOMAIN StrengthDescriptions
                             THEN StrengthDescriptions[finalScore + 1] ELSE "undefined"]

(***************************************************************************)
(* guards: isBSCAddress, isSolanaAddress, isValidAddress                   *)
(***************************************************************************)

\* /^0x[0-9a-fA-F]{40}$/
isBSCAddress(address) ==
  /\ Len(address) = 42
  /\ address[1] = 48 /\ address[2] = 120
  /\ \A i \in 3..42 : IsHexDigit(address[i])

\* 32 to 44 characters, /^[1-9A-HJ-NP-Za-km-z]+$/
isSolanaAddress(address) ==
  /\ Len(address) >= 32
  /\ Len(address) <= 44
  /\ Len(address) >= 1 /\ \A i \in 1..Len(address) : IsBase58Char(address[i])

\* isValidAddress(address, network)
isValidAddress(address, network) ==
  IF network = BSC THEN isBSCAddress(address) ELSE isSolanaAddress(address)

(***************************************************************************)
(* transferBSC                                                             *)
(***************************************************************************)

\* the decimals of parseEther: 18 in ethers, fewer here so that the amounts
\* stay in TLC's integers
EtherDecimals == 6

\* the gas of a plain transfer
TransferGas == 21000

RECURSIVE Pow10(_)
Pow10(n) == IF n = 0 THEN 1 ELSE 10 * Pow10(n - 1)

RECURSIVE DigitsValue(_)
\* the number a run of decimal digits writes
DigitsValue(digits) ==
  IF digits = << >> THEN 0
  ELSE 10 * DigitsValue(SubSeq(digits, 1, Len(digits) - 1)) + (digits[Len(digits)] - 48)

\* ethers.parseEther: an optional sign, digits, an optional point and digits,
\* at least one digit and no more decimals than the unit has; else it throws
ParseEther(amount) ==
  IF amount = Undefined \/ amount = << >> THEN [ok |-> FALSE, wei |-> 0]
  ELSE LET negative == amount[1] = 45
           body == IF negative THEN SubSeq(amount, 2, Len(amount)) ELSE amount
           points == { i \in 1..Len(body) : body[i] = 46 }
           point == IF points = {} THEN Len(body) + 1
                    ELSE CHOOSE i \in points : \A j \in points : i <= j
           whole == SubSeq(body, 1, point - 1)
           fraction == SubSeq(body, point + 1, Len(body))
       IN IF \/ Cardinality(points) > 1
             \/ \E i \in 1..Len(body) : ~IsDigit(body[i]) /\ body[i] # 46
             \/ Len(whole) + Len(fraction) = 0
             \/ Len(fraction) > EtherDecimals
            THEN [ok |-> FALSE, wei |-> 0]
          ELSE LET magnitude == DigitsValue(whole) * Pow10(EtherDecimals)
                                + DigitsValue(fraction) * Pow10(EtherDecimals - Len(fraction))
               IN [ok |-> TRUE, wei |-> IF negative THEN 0 - magnitude ELSE magnitude]

\* a comparison that takes any two addresses for the same
SameAddressAlways(a, b) == TRUE

\* wallet.address.toLowerCase() !== config.fromAddress.toLowerCase()
SameAddress(a, b) == ToLowerCase(a) = ToLowerCase(b)

\* the TransferResult of the catch block
TransferFailed(config, message) ==
  [success |-> FALSE, error |-> IF message # "" THEN message ELSE "BSC transfer failed",
   txHash |-> Undefined, toAddress |-> config.toAddress, amount |-> config.amount,
   threw |-> FALSE]

\* the TransferResult of a confirmed transaction
TransferSucceeded(config, txHash) ==
  [success |-> TRUE, error |-> "", txHash |-> txHash,
   toAddress |-> config.toAddress, amount |-> config.amount, threw |-> FALSE]

\* transferBSC up to its first await: "" when every check passed, or the
\* message of the error thrown
TransferRefusal(config) ==
  IF ~isAddress(config.fromAddress) \/ ~isAddress(config.toAddress)
    THEN "invalid BSC address"
  ELSE IF ~ParseEther(config.amount).ok THEN "invalid decimal value"
  ELSE IF ParseEther(config.amount).wei <= 0 THEN "transfer amount must be greater than 0"
  ELSE IF ~recoverBSCWallet(config.privateKey).ok THEN "invalid private key"
  ELSE IF ~SameAddress(recoverBSCWallet(config.privateKey).value, config.fromAddress)
    THEN "private key does not match the sending address"
  ELSE ""

(***************************************************************************)
(* State                                                                   *)
(***************************************************************************)

VARIABLES
  cPc,      \* cipher caller: "idle", "encrypted" or "decrypted"
  cPlain,   \* the plaintext handed to encrypt
  cPass,    \* the password handed to encrypt
  cSalt,    \* the salt WordArray.random returned inside encrypt
  cIv,      \* the IV WordArray.random returned inside encrypt
  cBlob,    \* the outcome of encrypt
  cDecPass, \* the password handed to decrypt
  cOut,     \* the outcome of decrypt
  mgr,      \* the WalletManager instance the caller holds, if any
  mCtor,    \* the last constructor call: argument and outcome
  mResult,  \* the outcome of the last createWallet or importWallet
  mKey,     \* the private key that call generated or derived
  mDec,     \* the last decryptPrivateKey call: argument and outcome
  wallets,  \* the rows of the wallets table
  now,      \* Date.now(), in milliseconds since the table was created
  resp,     \* the response of the last IPC call
  passed,   \* what the last IPC call handed to insertWallet
  bPc,      \* balance caller: "idle", "getBalance", "lookup", "delay", "done"
  bMode,    \* the call in progress: "single" (getBalance) or "batch"
  bInput,   \* the entries of the call
  bIdx,     \* the entry the call is at
  bResults, \* the results so far
  bLog,     \* collaborator calls, their settling and the delays, in order
  bOut,     \* how the call ended: "returned" or "thrown"
  bErr,     \* the message of the error getBalance threw
  tPc,      \* wallet:balance handler: "idle", "waiting", "replied"
  tParams,  \* the params of the call
  tClock,   \* milliseconds since the call
  tReply,   \* the reply
  lPc,      \* the lookup: "none", "probe", "query", "settled"
  lEp,      \* the BSC endpoint being probed
  lProbeAt, \* when its probe started
  tTimer, \* the withTimeout timer: "none", "set", "fired"
  tReplies, \* how many responses the handler has returned for the call
  imPc,     \* importWallet caller: "idle", "done"
  imLast,   \* the last importWallet call and its result
  imPrev,   \* the call before it
  xPc,      \* createMultipleWallets: "idle", "loop", "done"
  xArgs,    \* its arguments
  xI,       \* the loop index i
  xWallets, \* the list wallets
  xAttempts, \* the indices createWallet was called for
  xOut,     \* how the call ended: "returned" or "thrown"
  sPc,      \* strength score caller: "idle", "returned"
  sPassword, \* the password scored
  sResult,  \* the score and description returned
  pPc,      \* getAvailableBSCProvider: "idle", "probing", "returned", "thrown"
  pEp,      \* position of the endpoint being probed
  pElapsed, \* ms since the probe began
  pProbed,  \* positions probed, in the order the probes began
  pErrors,  \* the errors array
  pOut,     \* the provider returned (its position) or the error thrown
  pLate,    \* endpoints whose request is unsettled after its probe timed out
  aPc,      \* address check caller: "idle", "checked"
  aInput,   \* the address and network checked
  aResult,  \* the answers of the guard and of the manager
  fPc,      \* transferBSC: "idle", "getBalance", "getFeeData", "sending", "confirming", "returned"
  fConfig,  \* the config of the call
  fBalance, \* the balance getBalance gave
  fGas,     \* the estimated gas
  fSent,    \* the transactions handed to wallet.sendTransaction
  fOut      \* the TransferResult returned

cipherVars == <<cPc, cPlain, cPass, cSalt, cIv, cBlob, cDecPass, cOut>>
mgrVars == <<mgr, mCtor, mResult, mKey, mDec>>
ipcVars == <<wallets, now, resp, passed>>
balVars == <<bPc, bMode, bInput, bIdx, bResults, bLog, bOut, bErr>>
timeoutVars == <<tPc, tParams, tClock, tReply, lPc, lEp, lProbeAt, tTimer, tReplies>>
importVars == <<imPc, imLast, imPrev>>
multiVars == <<xPc, xArgs, xI, xWallets, xAttempts, xOut>>
strengthVars == <<sPc, sPassword, sResult>>
providerVars == <<pPc, pEp, pElapsed, pProbed, pErrors, pOut, pLate>>
addressVars == <<aPc, aInput, aResult>>
transferVars == <<fPc, fConfig, fBalance, fGas, fSent, fOut>>

vars == <<cipherVars, mgrVars, ipcVars, balVars, timeoutVars, importVars, multiVars, strengthVars, providerVars, addressVars, transferVars>>

\* the variables each component leaves alone
notCipher == <<mgrVars, ipcVars, balVars, timeoutVars, importVars, multiVars, strengthVars, providerVars, addressVars, transferVars>>
notMgr == <<cipherVars, ipcVars, balVars, timeoutVars, importVars, multiVars, strengthVars, providerVars, addressVars, transferVars>>
notIpc == <<cipherVars, mgrVars, balVars, timeoutVars, importVars, multiVars, strengthVars, providerVars, addressVars, transferVars>>
notBal == <<cipherVars, mgrVars, ipcVars, timeoutVars, importVars, multiVars, strengthVars, providerVars, addressVars, transferVars>>
notTimeout == <<cipherVars, mgrVars, ipcVars, balVars, importVars, multiVars, strengthVars, providerVars, addressVars, transferVars>>
notImport == <<cipherVars, mgrVars, ipcVars, balVars, timeoutVars, multiVars, strengthVars, providerVars, addressVars, transferVars>>
notMulti == <<cipherVars, mgrVars, ipcVars, balVars, timeoutVars, importVars, strengthVars, providerVars, addressVars, transferVars>>
notStrength == <<cipherVars, mgrVars, ipcVars, balVars, timeoutVars, importVars, multiVars, providerVars, addressVars, transferVars>>
notProvider == <<cipherVars, mgrVars, ipcVars, balVars, timeoutVars, importVars, multiVars, strengthVars, addressVars, transferVars>>
notAddress == <<cipherVars, mgrVars, ipcVars, balVars, timeoutVars, importVars, multiVars, strengthVars, providerVars, transferVars>>
notTransfer == <<cipherVars, mgrVars, ipcVars, balVars, timeoutVars, importVars, multiVars, strengthVars, providerVars, addressVars>>

(***************************************************************************)
(* Inputs of the cipher                                                    *)
(***************************************************************************)

NumSalts == 6
NumIvs == 6

\* values WordArray.random(128/8) may return
SaltOf(s) == [i \in 1..SaltBytes |-> (s * 83 + i * 29) % 256]
IvOf(v) == [i \in 1..IvBytes |-> (v * 113 + i * i * 7 + 5) % 256]
Salts == { SaltOf(s) : s \in 0..(NumSalts - 1) }
Ivs == { IvOf(v) : v \in 0..(NumIvs - 1) }

Plaintexts ==
  { << >>,                               \* ""
    <<65>>,                              \* "A"
    <<233, 33, 8364>>,                   \* e-acute, "!", euro sign
    Cycle(<<107, 101, 121, 45>>, 16),    \* 16 bytes: one full block
    HexKey(1) }                          \* a 66-character private key

CipherPasswords ==
  { << >>,                                                   \* ""
    <<84, 101, 115, 116, 80, 97, 115, 115, 49, 50, 51, 33>>,  \* "TestPass123!"
    <<87, 114, 111, 110, 103, 80, 97, 115, 115, 119, 100>>,   \* "WrongPasswd"
    <<83, 116, 114, 48, 110, 103, 33, 80, 97, 115, 115>> }    \* "Str0ng!Pass"

(***************************************************************************)
(* Cipher operations                                                       *)
(***************************************************************************)

InitCipher ==
  /\ cPc = "idle"
  /\ cPlain = << >>
  /\ cPass = << >>
  /\ cSalt = << >>
  /\ cIv = << >>
  /\ cBlob = Err("")
  /\ cDecPass = << >>
  /\ cOut = Err("")

\* a caller encrypts a plaintext under a password; encrypt draws salt and IV
CipherEncrypt ==
  /\ cPc = "idle"
  /\ \E T \in Plaintexts, P \in CipherPasswords, salt \in Salts, iv \in Ivs :
       /\ cPlain' = T
       /\ cPass' = P
       /\ cSalt' = salt
       /\ cIv' = iv
       /\ cBlob' = encrypt(T, P, salt, iv)
  /\ cPc' = "encrypted"
  /\ UNCHANGED <<cDecPass, cOut>>
  /\ UNCHANGED notCipher

\* the caller decrypts the blob it holds under some password
CipherDecrypt ==
  /\ cPc = "encrypted"
  /\ cBlob.ok
  /\ \E P \in CipherPasswords :
       /\ cDecPass' = P
       /\ cOut' = decrypt(cBlob.value, P)
  /\ cPc' = "decrypted"
  /\ UNCHANGED <<cPlain, cPass, cSalt, cIv, cBlob>>
  /\ UNCHANGED notCipher

\* texts a caller may hand to decrypt that it did not get from encrypt: the
\* empty string, and a blob made elsewhere
ForeignBlobs ==
  { << >>,
    encrypt(<<65>>, <<84, 101, 115, 116, 80, 97, 115, 115, 49, 50, 51, 33>>, SaltOf(0), IvOf(0)).value }

\* a caller decrypts a text it holds from elsewhere
CipherDecryptText ==
  /\ cPc = "idle"
  /\ \E B \in ForeignBlobs, P \in CipherPasswords :
       /\ cBlob' = Ok(B)
       /\ cDecPass' = P
       /\ cOut' = decrypt(B, P)
  /\ cPc' = "decryptedText"
  /\ UNCHANGED <<cPlain, cPass, cSalt, cIv>>
  /\ UNCHANGED notCipher

\* the caller drops the values and starts over
CipherReset ==
  /\ cPc \in {"encrypted", "decrypted", "decryptedText"}
  /\ cPc' = "idle"
  /\ cPlain' = << >>
  /\ cPass' = << >>
  /\ cSalt' = << >>
  /\ cIv' = << >>
  /\ cBlob' = Err("")
  /\ cDecPass' = << >>
  /\ cOut' = Err("")
  /\ UNCHANGED notCipher

NextCipher == CipherEncrypt \/ CipherDecrypt \/ CipherDecryptText \/ CipherReset

(***************************************************************************)
(* Inputs of the manager                                                   *)
(***************************************************************************)

MaxPwLen == 11
NumKeys == 2
NumUuids == 1
NumEntropy == 1
NumMgrSalts == 1
NumMgrIvs == 1

\* the characters passwords are made of: A a 1 ! space e-acute
PasswordChars == <<65, 97, 49, 33, 32, 233>>

\* every password that repeats a selection of PasswordChars up to a length
ManagerPasswords ==
  { << >> } \cup
  { Cycle(SelectSeq(PasswordChars, LAMBDA c : c \in S), n) :
      S \in (SUBSET {65, 97, 49, 33, 32, 233}) \ {{}}, n \in 1..MaxPwLen }

WalletNames == { <<119, 49>>, <<119, 50>> }             \* "w1", "w2"
Networks == { BSC, Solana }
NetworkTags == Networks \cup { <<69, 84, 72>> }         \* and "ETH"
Uuids == { <<117, 48 + u>> : u \in 1..NumUuids }        \* "u1", ...
MgrSalts == { SaltOf(s) : s \in 0..(NumMgrSalts - 1) }
MgrIvs == { IvOf(v) : v \in 0..(NumMgrIvs - 1) }

NoInstance == [held |-> FALSE, encryptionKey |-> Undefined]
NoCall == [called |-> FALSE, arg |-> Undefined, out |-> Err("")]

(***************************************************************************)
(* Manager operations                                                      *)
(***************************************************************************)

InitMgr ==
  /\ mgr = NoInstance
  /\ mCtor = NoCall
  /\ mResult = WalletError("")
  /\ mKey = Undefined
  /\ mDec = NoCall

\* the caller runs new WalletManager(p) and keeps the instance if there is one
MgrConstruct ==
  /\ ~mgr.held
  /\ \E p \in ManagerPasswords :
       LET r == NewWalletManager(p)
       IN /\ mCtor' = [called |-> TRUE, arg |-> p, out |-> r]
          /\ mgr' = IF r.ok THEN [held |-> TRUE, encryptionKey |-> r.value]
                    ELSE NoInstance
  /\ UNCHANGED <<mResult, mKey, mDec>>
  /\ UNCHANGED notMgr

\* manager.createWallet(name, network); the caller deals with one result at
\* a time
MgrCreateWallet ==
  /\ mgr.held
  /\ ~mResult.ok
  /\ \E name \in WalletNames, network \in NetworkTags, uuid \in Uuids,
        k \in 1..NumKeys, salt \in MgrSalts, iv \in MgrIvs, e \in 1..NumEntropy :
       /\ mResult' = createWallet(mgr.encryptionKey, name, network, uuid, k, salt, iv, e)
       /\ mKey' = GenerateKey(network, k).privateKey
  /\ mDec' = NoCall
  /\ UNCHANGED <<mgr, mCtor>>
  /\ UNCHANGED notMgr

\* manager.decryptPrivateKey(result.encrypted_key)
MgrDecrypt ==
  /\ mgr.held
  /\ mResult.ok
  /\ mDec' = [called |-> TRUE, arg |-> mResult.encrypted_key,
              out |-> decryptPrivateKey(mgr.encryptionKey, mResult.encrypted_key)]
  /\ UNCHANGED <<mgr, mCtor, mResult, mKey>>
  /\ UNCHANGED notMgr

\* the caller is done with the result
MgrDropResult ==
  /\ mResult.ok
  /\ mResult' = WalletError("")
  /\ mKey' = Undefined
  /\ mDec' = NoCall
  /\ UNCHANGED <<mgr, mCtor>>
  /\ UNCHANGED notMgr

\* the instance and its results go out of scope
MgrDiscard ==
  /\ mgr.held
  /\ mgr' = NoInstance
  /\ mCtor' = NoCall
  /\ mResult' = WalletError("")
  /\ mKey' = Undefined
  /\ mDec' = NoCall
  /\ UNCHANGED notMgr

NextMgr == MgrConstruct \/ MgrCreateWallet \/ MgrDecrypt \/ MgrDropResult \/ MgrDiscard

(***************************************************************************)
(* The IPC handlers over the wallets table                                 *)
(***************************************************************************)

MaxRows == 2
MaxClock == 1

StrongPassword == Cycle(<<65, 97, 49, 33>>, MIN_PASSWORD_LENGTH)
WeakPassword == Cycle(<<65, 97, 49, 33>>, 4)
Name1 == <<119, 49>>
Name2 == <<119, 50>>

\* a derivation path other than the defaults: m/0
CustomPath == <<109, 47, 48>>

CreateInputs ==
  [name : {Name1, << >>}, network : {BSC, Solana, <<69, 84, 72>>},
   password : {StrongPassword, WeakPassword, << >>}]

\* the import of HexKey(1) into BSC under the strong password
ImportBase ==
  [name |-> Name1, network |-> BSC, password |-> StrongPassword,
   importType |-> "privateKey", privateKey |-> HexKey(1),
   mnemonic |-> Undefined, derivationPath |-> Undefined]

ImportInputs ==
  { ImportBase,
    [ImportBase EXCEPT !.privateKey = <<32>> \o SubSeq(HexKey(1), 3, 66) \o <<32>>],
    [ImportBase EXCEPT !.privateKey = SubSeq(HexKey(1), 1, 40)],
    [ImportBase EXCEPT !.privateKey = Undefined],
    [ImportBase EXCEPT !.password = WeakPassword],
    [ImportBase EXCEPT !.name = << >>],
    [ImportBase EXCEPT !.network = Solana,
                       !.privateKey = BufferToBase64(SolSecretKey(SolSeed(1)))],
    [ImportBase EXCEPT !.network = Solana],
    [ImportBase EXCEPT !.importType = "mnemonic", !.privateKey = Undefined,
                       !.mnemonic = MnemonicPhrase(1)],
    [ImportBase EXCEPT !.importType = "mnemonic", !.privateKey = Undefined,
                       !.network = Solana, !.mnemonic = MnemonicPhrase(1),
                       !.derivationPath = CustomPath],
    [ImportBase EXCEPT !.importType = "mnemonic", !.privateKey = Undefined,
                       !.mnemonic = Name1],
    [ImportBase EXCEPT !.importType = "mnemonic", !.privateKey = Undefined],
    [ImportBase EXCEPT !.importType = "undefined", !.privateKey = Undefined,
                       !.mnemonic = HexKey(1)],
    [ImportBase EXCEPT !.importType = "keystore"] }

\* the uuid, the salt and the IV the handlers' calls draw; Math.random
\* returns the same number in every call
Uuid1 == <<117, 49>>
IpcSalt == SaltOf(0)
IpcIv == IvOf(0)

\* what each handler has for each input when it turns to the table
CreatePrepared ==
  [input \in CreateInputs |-> WalletCreatePrepare(input, Uuid1, 1, IpcSalt, IpcIv, 1)] @@ << >>
ImportPrepared ==
  [input \in ImportInputs |-> WalletImportPrepare(input, Uuid1, IpcSalt, IpcIv)] @@ << >>

\* the ids a caller may name: those of the rows, one of no row, none
CallerIds == { r.id : r \in wallets } \cup {WalletId(0, 2), << >>}

InitIpc ==
  /\ wallets = {}
  /\ now = 0
  /\ resp = Failure("none", "")
  /\ passed = NotPassed

\* a handler ran: the table, the response and the insert it made
Handle(h) ==
  /\ wallets' = h.rows
  /\ resp' = h.resp
  /\ passed' = h.passed

IpcCreate ==
  /\ Cardinality(wallets) < MaxRows
  /\ \E input \in CreateInputs, dt \in 0..1 :
       /\ now + dt <= MaxClock
       /\ now' = now + dt
       /\ Handle(WalletCreate(wallets, input, CreatePrepared[input], now + dt, 1, 2))
  /\ UNCHANGED notIpc

IpcImport ==
  /\ Cardinality(wallets) < MaxRows
  /\ \E input \in ImportInputs, dt \in 0..1 :
       /\ now + dt <= MaxClock
       /\ now' = now + dt
       /\ Handle(WalletImport(wallets, input, ImportPrepared[input], now + dt, 1))
  /\ UNCHANGED notIpc

IpcUpdateName ==
  /\ \E id \in CallerIds, name \in {Name2, << >>} :
       Handle(WalletUpdateName(wallets, id, name))
  /\ UNCHANGED now
  /\ UNCHANGED notIpc

IpcDelete ==
  /\ \E id \in CallerIds : Handle(WalletDelete(wallets, id))
  /\ UNCHANGED now
  /\ UNCHANGED notIpc

\* the balances a collaborator returns: "0" and "1.5"
Balances == { <<48>>, <<49, 46, 53>> }

\* the params of wallet:balance calls
BalanceParams ==
  { [address |-> BSCAddressOf(HexKey(1)), network |-> BSC],
    [address |-> SubSeq(BSCAddressOf(HexKey(1)), 1, 5), network |-> BSC],
    [address |-> ToBase58(SolPublicKey(SolSeed(1))), network |-> Solana],
    [address |-> Rep(48, 32), network |-> Solana],
    [address |-> ToBase58(SolPublicKey(SolSeed(1))), network |-> <<69, 84, 72>>],
    [address |-> << >>, network |-> BSC] }

\* how the race of withTimeout may end
Races ==
  { [kind |-> "resolved", balance |-> b, message |-> ""] : b \in Balances }
  \cup { [kind |-> "rejected", balance |-> Undefined, message |-> LookupErrorMessage(n, k)] :
           n \in {BSC, Solana}, k \in FailureKinds }
  \cup { [kind |-> "timeout", balance |-> Undefined, message |-> ""] }

\* the errors the store throws: 'database not initialised', a failed
\* statement, and an error without a message
StoreFaults == {"database not initialised", "query failed", ""}

IpcList ==
  /\ Handle(Handled(wallets, WalletList(wallets), NotPassed))
  /\ UNCHANGED now
  /\ UNCHANGED notIpc

IpcGetById ==
  /\ \E id \in CallerIds : Handle(Handled(wallets, WalletGetById(wallets, id), NotPassed))
  /\ UNCHANGED now
  /\ UNCHANGED notIpc

IpcBalance ==
  /\ \E params \in BalanceParams, race \in Races :
       Handle(Handled(wallets, WalletBalanceHandler(params, race), NotPassed))
  /\ UNCHANGED now
  /\ UNCHANGED notIpc

\* the store throws in a handler that reads or changes one row or lists
\* them: the handler's catch block answers
IpcStoreFault ==
  /\ \E ch \in {"wallet:list", "wallet:getById", "wallet:updateName", "wallet:delete"},
        fault \in StoreFaults :
       Handle(Handled(wallets, Caught(ch, fault, "request failed"), NotPassed))
  /\ UNCHANGED now
  /\ UNCHANGED notIpc

NextIpc ==
  \/ IpcCreate
  \/ IpcImport
  \/ IpcUpdateName
  \/ IpcDelete
  \/ IpcList
  \/ IpcGetById
  \/ IpcBalance
  \/ IpcStoreFault

(***************************************************************************)
(* Filling the table: insertWallet called once a millisecond               *)
(***************************************************************************)

MaxFill == 101

\* the record every call inserts
FillRecord ==
  [name |-> Name1, address |-> BSCAddressOf(HexKey(1)), network |-> BSC,
   encrypted_key |-> encrypt(HexKey(1), StrongPassword, SaltOf(1), IvOf(1)).value]

StoreInsert ==
  /\ now < MaxFill
  /\ now' = now + 1
  /\ LET ins == insertWallet(wallets, FillRecord, now + 1, 1)
     IN /\ wallets' = ins.rows
        /\ resp' = IF ins.ok THEN Success("insertWallet", ins.id)
                   ELSE Failure("insertWallet", ins.error)
        /\ passed' = Passed(FillRecord, HexKey(1), StrongPassword, Undefined)
  /\ UNCHANGED notIpc

NextFill == StoreInsert

(***************************************************************************)
(* A caller of getBalance and getBalances, step by step                    *)
(***************************************************************************)

MaxBatch == 3

\* entries of each kind: BSC with checksum, BSC too short, Solana, a Solana
\* address on BSC, Solana too short, an unsupported network
BalanceEntries ==
  { [address |-> BSCAddressOf(HexKey(1)), network |-> BSC],
    [address |-> SubSeq(BSCAddressOf(HexKey(1)), 1, 5), network |-> BSC],
    [address |-> ToBase58(SolPublicKey(SolSeed(1))), network |-> Solana],
    [address |-> ToBase58(SolPublicKey(SolSeed(1))), network |-> BSC],
    [address |-> SubSeq(ToBase58(SolPublicKey(SolSeed(1))), 1, 5), network |-> Solana],
    [address |-> ToBase58(SolPublicKey(SolSeed(1))), network |-> <<69, 84, 72>>],
    [address |-> Rep(48, 32), network |-> Solana] }

\* the input lists of getBalances
BalanceLists == UNION { [1..n -> BalanceEntries] : n \in 0..MaxBatch }

\* an event of the run: the collaborator is called for entry idx, its promise
\* settles, or the delay after entry idx has passed
Event(ev, idx, ok, value) == [ev |-> ev, idx |-> idx, ok |-> ok, value |-> value]

InitBal ==
  /\ bPc = "idle"
  /\ bMode = "none"
  /\ bInput = << >>
  /\ bIdx = 0
  /\ bResults = << >>
  /\ bLog = << >>
  /\ bOut = "none"
  /\ bErr = ""

\* the caller calls getBalance(address, network)
BalCallGetBalance ==
  /\ bPc = "idle"
  /\ \E w \in BalanceEntries :
       /\ bInput' = <<w>>
       /\ bMode' = "single"
  /\ bIdx' = 1
  /\ bResults' = << >>
  /\ bLog' = << >>
  /\ bOut' = "pending"
  /\ bErr' = ""
  /\ bPc' = "getBalance"
  /\ UNCHANGED notBal

\* the caller calls getBalances(wallets)
BalCallGetBalances ==
  /\ bPc = "idle"
  /\ \E ws \in BalanceLists : bInput' = ws
  /\ bMode' = "batch"
  /\ bIdx' = 1
  /\ bResults' = << >>
  /\ bLog' = << >>
  /\ bOut' = "pending"
  /\ bErr' = ""
  /\ bPc' = "getBalance"
  /\ UNCHANGED notBal

\* getBalances leaves the loop and returns the results
BalReturn ==
  /\ bPc = "getBalance"
  /\ bMode = "batch"
  /\ bIdx > Len(bInput)
  /\ bOut' = "returned"
  /\ bPc' = "done"
  /\ UNCHANGED <<bMode, bInput, bIdx, bResults, bLog, bErr>>
  /\ UNCHANGED notBal

\* getBalance runs up to its await: it throws, or calls the collaborator
\* (a run over MaxBatch entries makes no more than MaxBatch calls).
\* A throw ends a single call; in the loop it is caught, the placeholder is
\* pushed and the loop goes on at once.
BalGetBalanceBegin ==
  /\ bPc = "getBalance"
  /\ bIdx <= Len(bInput)
  /\ Len(SelectSeq(bLog, LAMBDA e : e.ev = "start")) < MaxBatch
  /\ LET w == bInput[bIdx]
         b == getBalanceBegin(w.address, w.network)
     IN IF b = "throw"
          THEN /\ bLog' = bLog
               /\ IF bMode = "single"
                    THEN /\ bOut' = "thrown"
                         /\ bErr' = getBalanceThrown(w.address, w.network)
                         /\ bPc' = "done"
                         /\ UNCHANGED <<bResults, bIdx>>
                    ELSE /\ bResults' = Append(bResults, Placeholder(w))
                         /\ bIdx' = NextEntry(bIdx)
                         /\ UNCHANGED <<bOut, bErr, bPc>>
          ELSE /\ bLog' = Append(bLog, Event("start", bIdx, TRUE, b))
               /\ bPc' = "lookup"
               /\ UNCHANGED <<bResults, bIdx, bOut, bErr>>
  /\ UNCHANGED <<bMode, bInput>>
  /\ UNCHANGED notBal

\* the collaborator's promise resolves with a balance: getBalance returns the
\* result; the loop pushes it and starts the delay
BalLookupResolves ==
  /\ bPc = "lookup"
  /\ \E balance \in Balances :
       LET w == bInput[bIdx]
       IN /\ bLog' = Append(bLog, Event("settle", bIdx, TRUE, balance))
          /\ bResults' = Append(bResults, BalanceResult(w.address, w.network, balance))
  /\ IF bMode = "single"
       THEN /\ bOut' = "returned"
            /\ bPc' = "done"
       ELSE /\ bPc' = "delay"
            /\ UNCHANGED bOut
  /\ UNCHANGED <<bMode, bInput, bIdx, bErr>>
  /\ UNCHANGED notBal

\* the collaborator's promise rejects: getBalance throws; the loop catches,
\* pushes the placeholder and goes on without a delay
BalLookupRejects ==
  /\ bPc = "lookup"
  /\ bLog' = Append(bLog, Event("settle", bIdx, FALSE, << >>))
  /\ IF bMode = "single"
       THEN /\ bOut' = "thrown"
            /\ \E kind \in FailureKinds :
                 bErr' = WrapFailure(LookupErrorMessage(bInput[bIdx].network, kind))
            /\ bPc' = "done"
            /\ UNCHANGED <<bResults, bIdx>>
       ELSE /\ bResults' = Append(bResults, Placeholder(bInput[bIdx]))
            /\ bIdx' = NextEntry(bIdx)
            /\ bPc' = "getBalance"
            /\ UNCHANGED <<bOut, bErr>>
  /\ UNCHANGED <<bMode, bInput>>
  /\ UNCHANGED notBal

\* the timer set after a successful getBalance fires
BalDelayElapsed ==
  /\ bPc = "delay"
  /\ bLog' = Append(bLog, Event("delay", bIdx, TRUE, << >>))
  /\ bIdx' = NextEntry(bIdx)
  /\ bPc' = "getBalance"
  /\ UNCHANGED <<bMode, bInput, bResults, bOut, bErr>>
  /\ UNCHANGED notBal

\* the caller takes the outcome and is ready for another call
BalDone ==
  /\ bPc = "done"
  /\ bPc' = "idle"
  /\ bMode' = "none"
  /\ bInput' = << >>
  /\ bIdx' = 0
  /\ bResults' = << >>
  /\ bLog' = << >>
  /\ bOut' = "none"
  /\ bErr' = ""
  /\ UNCHANGED notBal

NextBal ==
  \/ BalCallGetBalance
  \/ BalCallGetBalances
  \/ BalGetBalanceBegin
  \/ BalLookupResolves
  \/ BalLookupRejects
  \/ BalDelayElapsed
  \/ BalReturn
  \/ BalDone

(***************************************************************************)
(* A wallet:balance call in time                                           *)
(***************************************************************************)

TickMs == 2500
MaxTimeMs == 15000

NoReply == BalanceReply(FALSE, "", Undefined, 0, FALSE)

InitTimeout ==
  /\ tPc = "idle"
  /\ tParams = Undefined
  /\ tClock = 0
  /\ tReply = NoReply
  /\ lPc = "none"
  /\ lEp = 0
  /\ lProbeAt = 0
  /\ tTimer = "none"
  /\ tReplies = 0

\* the lookup has a request on the wire
LookupInProgress == lPc \in {"probe", "query"}

\* a settling lookup that replies whether or not the handler still waits
SettleReplying(success, error, balance) ==
  /\ lPc' = "settled"
  /\ tPc' = "replied"
  /\ tReply' = IF success
                 THEN BalanceReply(TRUE, "", WalletBalance(tParams, balance), tClock, FALSE)
                 ELSE BalanceReply(FALSE, error, Undefined, tClock, FALSE)
  /\ tReplies' = tReplies + 1

\* the lookup promise settles at the present time: a waiting handler replies
Settle(success, error, balance) ==
  /\ lPc' = "settled"
  /\ IF tPc = "waiting"
       THEN /\ tPc' = "replied"
            /\ tReply' = IF success
                           THEN BalanceReply(TRUE, "", WalletBalance(tParams, balance),
                                             tClock, FALSE)
                           ELSE BalanceReply(FALSE, error, Undefined, tClock, FALSE)
            /\ tReplies' = tReplies + 1
       ELSE UNCHANGED <<tPc, tReply, tReplies>>

\* the handler is called: it replies at once, or starts the lookup and the
\* timer and waits for the race
TimeoutCall ==
  /\ tPc = "idle"
  /\ \E params \in BalanceParams :
       /\ tParams' = params
       /\ tClock' = 0
       /\ IF ~Present(params.address) \/ ~Present(params.network)
            THEN /\ tPc' = "replied"
                 /\ tReply' = BalanceReply(FALSE, MissingParamsMessage, Undefined, 0, FALSE)
                 /\ tTimer' = "none"
                 /\ UNCHANGED <<lPc, lEp, lProbeAt>>
          ELSE IF params.network \notin {BSC, Solana}
            THEN /\ tPc' = "replied"
                 /\ tReply' = BalanceReply(FALSE, UnsupportedNetworkMessage, Undefined, 0, FALSE)
                 /\ tTimer' = "none"
                 /\ UNCHANGED <<lPc, lEp, lProbeAt>>
          ELSE IF LookupRefusal(params.address, params.network) # ""
            THEN /\ tPc' = "replied"
                 /\ tReply' = BalanceReply(FALSE, LookupRefusal(params.address, params.network),
                                           Undefined, 0, FALSE)
                 /\ lPc' = "settled"
                 /\ tTimer' = "set"
                 /\ UNCHANGED <<lEp, lProbeAt>>
          ELSE /\ tPc' = "waiting"
               /\ tReply' = NoReply
               /\ lPc' = IF params.network = BSC THEN "probe" ELSE "query"
               /\ lEp' = IF params.network = BSC THEN 1 ELSE 0
               /\ lProbeAt' = 0
               /\ tTimer' = "set"
       /\ tReplies' = IF tPc' = "replied" THEN 1 ELSE 0
  /\ UNCHANGED notTimeout

\* getAvailableBSCProvider: getBlockNumber answers, the provider is returned
\* and provider.getBalance is requested
LookupProbeAnswers ==
  /\ lPc = "probe"
  /\ lPc' = "query"
  /\ UNCHANGED <<tPc, tParams, tClock, tReply, lEp, lProbeAt, tTimer, tReplies>>
  /\ UNCHANGED notTimeout

\* getAvailableBSCProvider: the probe of an endpoint fails, by an error at
\* any time or by its connection timeout; the next endpoint is probed, and
\* after the last one the lookup fails
LookupProbeFails ==
  /\ lPc = "probe"
  /\ tClock <= TimerDeadline(lProbeAt, RPC_CONNECTION_TIMEOUT)
  /\ IF lEp < BSC_ENDPOINTS
       THEN /\ lEp' = lEp + 1
            /\ lProbeAt' = tClock
            /\ UNCHANGED <<lPc, tPc, tReply, tReplies>>
       ELSE /\ Settle(FALSE, LookupFailedMessage, Undefined)
            /\ UNCHANGED <<lEp, lProbeAt>>
  /\ UNCHANGED <<tParams, tClock, tTimer>>
  /\ UNCHANGED notTimeout

\* the balance request resolves
LookupQueryResolves ==
  /\ lPc = "query"
  /\ \E balance \in Balances : Settle(TRUE, "", balance)
  /\ UNCHANGED <<tParams, tClock, lEp, lProbeAt, tTimer>>
  /\ UNCHANGED notTimeout

\* the balance request rejects
LookupQueryRejects ==
  /\ lPc = "query"
  /\ \E kind \in FailureKinds :
       Settle(FALSE, LookupErrorMessage(tParams.network, kind), Undefined)
  /\ UNCHANGED <<tParams, tClock, lEp, lProbeAt, tTimer>>
  /\ UNCHANGED notTimeout

\* withTimeout: the timer fires and rejects its promise.  While the handler
\* waits the race rejects and the handler replies from its catch block; when
\* the race has settled before, the rejection changes nothing.  Nothing is
\* done to the lookup promise.
TimeoutFires ==
  /\ tTimer = "set"
  /\ tClock = TimerDeadline(0, BALANCE_TIMEOUT_MS)
  /\ tTimer' = "fired"
  /\ IF tPc = "waiting"
       THEN /\ tPc' = "replied"
            /\ tReply' = BalanceReply(FALSE, TimeoutMessage, Undefined, tClock, TRUE)
            /\ tReplies' = tReplies + 1
       ELSE UNCHANGED <<tPc, tReply, tReplies>>
  /\ UNCHANGED <<tParams, tClock, lPc, lEp, lProbeAt>>
  /\ UNCHANGED notTimeout

\* the timers that are set and have not fired
PendingDeadlines ==
  (IF tTimer = "set" THEN {TimerDeadline(0, BALANCE_TIMEOUT_MS)} ELSE {})
  \cup (IF lPc = "probe" THEN {TimerDeadline(lProbeAt, RPC_CONNECTION_TIMEOUT)} ELSE {})

\* time passes, up to the next timer that is due
TimeoutTick ==
  /\ tPc \in {"waiting", "replied"}
  /\ LookupInProgress \/ tTimer = "set"
  /\ tClock < MaxTimeMs
  /\ \A d \in PendingDeadlines : d > tClock
  /\ LET next == {tClock + TickMs} \cup PendingDeadlines
     IN tClock' = CHOOSE t \in next : \A u \in next : t <= u
  /\ UNCHANGED <<tPc, tParams, tReply, lPc, lEp, lProbeAt, tTimer, tReplies>>
  /\ UNCHANGED notTimeout

\* the caller has the reply and nothing of the call is left
TimeoutDone ==
  /\ tPc = "replied"
  /\ ~LookupInProgress
  /\ tTimer # "set"
  /\ tPc' = "idle"
  /\ tParams' = Undefined
  /\ tClock' = 0
  /\ tReply' = NoReply
  /\ lPc' = "none"
  /\ lEp' = 0
  /\ lProbeAt' = 0
  /\ tTimer' = "none"
  /\ tReplies' = 0
  /\ UNCHANGED notTimeout

NextTimeout ==
  \/ TimeoutCall
  \/ LookupProbeAnswers
  \/ LookupProbeFails
  \/ LookupQueryResolves
  \/ LookupQueryRejects
  \/ TimeoutFires
  \/ TimeoutTick
  \/ TimeoutDone

(***************************************************************************)
(* importWallet calls on WalletManager instances                           *)
(***************************************************************************)

NumNonces == 2

\* JSON.stringify of the elements lo..hi of an array of bytes, without the
\* brackets
RECURSIVE JsonElements(_, _, _)
JsonElements(bytes, lo, hi) ==
  IF lo > hi THEN << >>
  ELSE IF lo = hi THEN Decimal(bytes[lo])
  ELSE LET mid == (lo + hi) \div 2
       IN JsonElements(bytes, lo, mid) \o <<44>> \o JsonElements(bytes, mid + 1, hi)

\* JSON.stringify(Array.from(bytes)): "[1,2,3]"
JsonArray(bytes) == <<91>> \o JsonElements(bytes, 1, Len(bytes)) \o <<93>>

\* a secret key whose second half is not the public key of its first half
MismatchedSecretKey == SolSeed(1) \o SolSeed(2)

ImportArg(network, data, type, path) ==
  [network |-> network, importData |-> data, importType |-> type, derivationPath |-> path]

BSCKeyArgs ==
  { ImportArg(BSC, data, "privateKey", Undefined) : data \in
      { HexKey(1),
        SubSeq(HexKey(1), 3, 66),
        <<32>> \o HexKey(1) \o <<32, 10>>,
        <<9>> \o SubSeq(HexKey(1), 3, 66) \o <<32>>,
        SubSeq(HexKey(1), 1, 40),
        SubSeq(HexKey(1), 1, 65) \o <<103>>,
        SubSeq(HexKey(1), 1, 34) \o <<32>> \o SubSeq(HexKey(1), 35, 66),
        <<48, 88>> \o SubSeq(HexKey(1), 3, 66),
        <<48, 120>> \o Rep(48, 64),
        << >> } }

SolanaKeyArgs ==
  { ImportArg(Solana, data, "privateKey", Undefined) : data \in
      { BufferToBase64(SolSecretKey(SolSeed(1))),
        JsonArray(SolSecretKey(SolSeed(1))),
        BufferToBase64(SolSeed(1)),
        BufferToBase64(SolSecretKey(SolSeed(1)) \o <<7>>),
        BufferToBase64(MismatchedSecretKey),
        JsonArray(SolSeed(1)) } }

MnemonicArgs ==
  { ImportArg(BSC, MnemonicPhrase(1), "mnemonic", Undefined),
    ImportArg(BSC, MnemonicPhrase(1), "mnemonic", CustomPath),
    ImportArg(BSC, MnemonicPhrase(2), "mnemonic", Undefined),
    ImportArg(Solana, MnemonicPhrase(1), "mnemonic", Undefined),
    ImportArg(Solana, MnemonicPhrase(1), "mnemonic", CustomPath),
    ImportArg(BSC, Name1, "mnemonic", Undefined) }

ImportArgs == BSCKeyArgs \cup SolanaKeyArgs \cup MnemonicArgs

\* the passwords of the manager instances
ImportPasswords == { StrongPassword, Cycle(<<33, 49, 97, 65, 98>>, MIN_PASSWORD_LENGTH) }

\* a call: the arguments, the instance, and the draw of the random sources
\* (uuid, salt, IV)
ImportCalls == [args : ImportArgs, password : ImportPasswords, nonce : 1..NumNonces]

ImportCallResult(c) ==
  importWallet(NewWalletManager(c.password).value, Name1, c.args.network, c.args.importData,
               c.args.importType, c.args.derivationPath,
               <<117, 48 + c.nonce>>, SaltOf(c.nonce), IvOf(c.nonce))

\* the result of every call, computed once
ImportTable == [c \in ImportCalls |-> ImportCallResult(c)] @@ << >>

NoImport == [called |-> FALSE, call |-> Undefined, res |-> WalletError("")]

InitImport ==
  /\ imPc = "idle"
  /\ imLast = NoImport
  /\ imPrev = NoImport

\* a manager's importWallet is called and returns or throws; the call before
\* it is remembered
ImportCall ==
  /\ imPc = "idle"
  /\ \E c \in ImportCalls :
       imLast' = [called |-> TRUE, call |-> c, res |-> ImportTable[c]]
  /\ imPrev' = imLast
  /\ imPc' = "done"
  /\ UNCHANGED notImport

\* the caller has the result
ImportReturn ==
  /\ imPc = "done"
  /\ imPc' = "idle"
  /\ UNCHANGED <<imLast, imPrev>>
  /\ UNCHANGED notImport

NextImport ==
  \/ ImportCall
  \/ ImportReturn

(***************************************************************************)
(* createMultipleWallets                                                   *)
(***************************************************************************)

MaxCount == 4

\* the prefixes a caller passes: "P", or none
MultiPrefixes == { <<80>>, Undefined }

\* the wallet createWallet returns for item i of a batch: the random sources
\* return uuid "u<i>" and key material, salt and IV number i
MultiItem(prefix, network, i) ==
  createWallet(StrongPassword, MultiName(DefaultedPrefix(prefix), i), network,
               <<117, 48 + i>>, i, SaltOf(i), IvOf(i), i)

MultiTable ==
  [c \in MultiPrefixes \X NetworkTags \X (1..(MaxCount + 1)) |->
     MultiItem(c[1], c[2], c[3])] @@ << >>

InitMulti ==
  /\ xPc = "idle"
  /\ xArgs = [count |-> 0, network |-> Undefined, namePrefix |-> Undefined]
  /\ xI = 0
  /\ xWallets = << >>
  /\ xAttempts = << >>
  /\ xOut = "none"

\* manager.createMultipleWallets(count, network, namePrefix) is called
MultiCall ==
  /\ xPc = "idle"
  /\ \E count \in 0..MaxCount, network \in NetworkTags, prefix \in MultiPrefixes :
       xArgs' = [count |-> count, network |-> network, namePrefix |-> prefix]
  /\ xI' = 1
  /\ xWallets' = << >>
  /\ xAttempts' = << >>
  /\ xOut' = "pending"
  /\ xPc' = "loop"
  /\ UNCHANGED notMulti

\* one turn of the loop: createWallet for item i is awaited; its result is
\* pushed, or its error leaves createMultipleWallets.  createWallet throws
\* for an unsupported network and when a library it calls throws.
MultiCreate ==
  /\ xPc = "loop"
  /\ xI <= xArgs.count
  /\ xAttempts' = Append(xAttempts, xI)
  /\ \E libraryThrows \in BOOLEAN :
       LET wallet == MultiTable[<<xArgs.namePrefix, xArgs.network, xI>>]
       IN IF wallet.ok /\ ~libraryThrows
            THEN /\ xWallets' = Append(xWallets, wallet)
                 /\ xI' = NextEntry(xI)
                 /\ UNCHANGED <<xPc, xOut>>
            ELSE /\ xOut' = "thrown"
                 /\ xPc' = "done"
                 /\ UNCHANGED <<xWallets, xI>>
  /\ UNCHANGED xArgs
  /\ UNCHANGED notMulti

\* the loop is over: the list is returned
MultiReturn ==
  /\ xPc = "loop"
  /\ xI > xArgs.count
  /\ xOut' = "returned"
  /\ xPc' = "done"
  /\ UNCHANGED <<xArgs, xI, xWallets, xAttempts>>
  /\ UNCHANGED notMulti

\* the caller has the list or the error
MultiDone ==
  /\ xPc = "done"
  /\ xPc' = "idle"
  /\ xArgs' = [count |-> 0, network |-> Undefined, namePrefix |-> Undefined]
  /\ xI' = 0
  /\ xWallets' = << >>
  /\ xAttempts' = << >>
  /\ xOut' = "none"
  /\ UNCHANGED notMulti

NextMulti ==
  \/ MultiCall
  \/ MultiCreate
  \/ MultiReturn
  \/ MultiDone

(***************************************************************************)
(* Calls of the password strength score                                    *)
(***************************************************************************)

MaxStrengthLen == 17

\* String.prototype.toUpperCase on the ASCII letters
ToUpperCase(str) == [i \in 1..Len(str) |-> IF IsLower(str[i]) THEN str[i] - 32 ELSE str[i]]

\* the first letter in upper case
Capitalised(str) == IF str = << >> THEN str ELSE ToUpperCase(SubSeq(str, 1, 1)) \o SubSeq(str, 2, Len(str))

\* the denylist as written, in upper case and capitalised; and texts of every
\* length that repeat "a", "aB", "aB1", "aB1!", "abc", "x1y2z3!A", "password"
StrengthPasswords ==
  COMMON_PASSWORDS
  \cup { ToUpperCase(w) : w \in COMMON_PASSWORDS }
  \cup { Capitalised(w) : w \in COMMON_PASSWORDS }
  \cup { Cycle(s, n) : n \in 0..MaxStrengthLen,
                       s \in { <<97>>, <<97, 66>>, <<97, 66, 49>>, <<97, 66, 49, 33>>,
                               <<97, 98, 99>>, <<120, 49, 121, 50, 122, 51, 33, 65>>,
                               <<112, 97, 115, 115, 119, 111, 114, 100>> } }

NoScore == [score |-> -1, description |-> ""]

InitStrength ==
  /\ sPc = "idle"
  /\ sPassword = << >>
  /\ sResult = NoScore

\* validatePasswordStrength(password) is called and returns
StrengthCall ==
  /\ sPc = "idle"
  /\ \E password \in StrengthPasswords :
       /\ sPassword' = password
       /\ sResult' = validatePasswordStrengthScore(password)
  /\ sPc' = "returned"
  /\ UNCHANGED notStrength

\* the caller has used the result
StrengthDone ==
  /\ sPc = "returned"
  /\ sPc' = "idle"
  /\ sPassword' = << >>
  /\ sResult' = NoScore
  /\ UNCHANGED notStrength

NextStrength ==
  \/ StrengthCall
  \/ StrengthDone

(***************************************************************************)
(* getAvailableBSCProvider                                                 *)
(***************************************************************************)

\* the position after rpcUrl in RPC_ENDPOINTS.BSC, skipping one
NextEndpointSkipping(ep) == ep + 2

\* for (const rpcUrl of RPC_ENDPOINTS.BSC): the position after rpcUrl
NextEndpoint(ep) == ep + 1

\* the message of the probe timer
ConnectionTimeoutMessage == "connection timeout"

\* the messages getBlockNumber rejects with
ProbeErrorMessages == {"network error", "server error"}

\* the message of the error thrown after the loop
AllNodesUnavailableMessage == "all BSC RPC nodes unavailable"

InitProvider ==
  /\ pPc = "idle"
  /\ pEp = 0
  /\ pElapsed = 0
  /\ pProbed = << >>
  /\ pErrors = << >>
  /\ pOut = [provider |-> 0, error |-> ""]
  /\ pLate = {}

\* the loop takes the endpoint at position ep: a provider is made for it,
\* getBlockNumber is requested and the probe timer is set
StartProbe(ep) ==
  /\ pEp' = ep
  /\ pElapsed' = 0
  /\ pProbed' = Append(pProbed, ep)

\* the catch block of the loop: the message is pushed, and the loop goes on
\* or ends in the throw behind it
ProbeCaught(message) ==
  /\ pErrors' = Append(pErrors, [endpoint |-> pEp, message |-> message])
  /\ IF NextEndpoint(pEp) <= BSC_ENDPOINTS
       THEN /\ StartProbe(NextEndpoint(pEp))
            /\ UNCHANGED <<pPc, pOut>>
       ELSE /\ pPc' = "thrown"
            /\ pOut' = [provider |-> 0, error |-> AllNodesUnavailableMessage]
            /\ UNCHANGED <<pEp, pElapsed, pProbed>>

\* getAvailableBSCProvider() is called
ProviderCall ==
  /\ pPc = "idle"
  /\ pPc' = "probing"
  /\ pErrors' = << >>
  /\ pOut' = [provider |-> 0, error |-> ""]
  /\ IF 1 <= BSC_ENDPOINTS
       THEN StartProbe(1)
       ELSE UNCHANGED <<pEp, pElapsed, pProbed>>
  /\ UNCHANGED pLate
  /\ UNCHANGED notProvider

\* time passes while the probe is awaited, up to the probe timer
ProbeTick ==
  /\ pPc = "probing"
  /\ pElapsed < TimerDeadline(0, RPC_CONNECTION_TIMEOUT)
  /\ LET next == {pElapsed + TickMs, TimerDeadline(0, RPC_CONNECTION_TIMEOUT)}
     IN pElapsed' = CHOOSE t \in next : \A u \in next : t <= u
  /\ UNCHANGED <<pPc, pEp, pProbed, pErrors, pOut, pLate>>
  /\ UNCHANGED notProvider

\* getBlockNumber resolves before the timer fires: the provider is returned
ProbeAnswers ==
  /\ pPc = "probing"
  /\ pPc' = "returned"
  /\ pOut' = [provider |-> pEp, error |-> ""]
  /\ UNCHANGED <<pEp, pElapsed, pProbed, pErrors, pLate>>
  /\ UNCHANGED notProvider

\* getBlockNumber rejects before the timer fires
ProbeRejects ==
  /\ pPc = "probing"
  /\ \E message \in ProbeErrorMessages : ProbeCaught(message)
  /\ UNCHANGED pLate
  /\ UNCHANGED notProvider

\* the probe timer fires first: the race rejects; the request is left
\* unsettled
ProbeTimesOut ==
  /\ pPc = "probing"
  /\ pElapsed = TimerDeadline(0, RPC_CONNECTION_TIMEOUT)
  /\ ProbeCaught(ConnectionTimeoutMessage)
  /\ pLate' = pLate \cup {pEp}
  /\ UNCHANGED notProvider

\* a request whose probe had timed out settles; the race has settled before
\* and nothing reads the outcome
ProbeSettlesLate ==
  /\ \E ep \in pLate : pLate' = pLate \ {ep}
  /\ UNCHANGED <<pPc, pEp, pElapsed, pProbed, pErrors, pOut>>
  /\ UNCHANGED notProvider

\* the caller has the provider or the error
ProviderDone ==
  /\ pPc \in {"returned", "thrown"}
  /\ pPc' = "idle"
  /\ pEp' = 0
  /\ pElapsed' = 0
  /\ pProbed' = << >>
  /\ pErrors' = << >>
  /\ pOut' = [provider |-> 0, error |-> ""]
  /\ UNCHANGED pLate
  /\ UNCHANGED notProvider

NextProvider ==
  \/ ProviderCall
  \/ ProbeTick
  \/ ProbeAnswers
  \/ ProbeRejects
  \/ ProbeTimesOut
  \/ ProbeSettlesLate
  \/ ProviderDone

(***************************************************************************)
(* Address checks: guards.isValidAddress and WalletManager.validateAddress *)
(***************************************************************************)

MaxAddressLen == 45

\* the addresses checked: the address of a key as ethers writes it, in lower
\* case, in upper case after the prefix, with one letter's case swapped and
\* without the prefix; and runs of "0", "1", "a", "A", "g" of every length,
\* bare and behind "0x"
AddressTexts ==
  LET own == BSCAddressOf(HexKey(1))
      body == SubSeq(own, 3, Len(own))
      base58 == ToBase58(SolPublicKey(SolSeed(1)))
  IN { own, ToLowerCase(own), <<48, 120>> \o ToUpperCase(body), body, base58,
       <<48, 120>> \o ToLowerCase(SubSeq(body, 1, 20)) \o ToUpperCase(SubSeq(body, 21, 40)) }
     \cup { Rep(c, n) : c \in {48, 49, 97, 65, 103}, n \in 0..MaxAddressLen }
     \cup { <<48, 120>> \o Rep(c, n) : c \in {48, 97, 65, 103}, n \in 0..MaxAddressLen }

NoCheck == [guard |-> FALSE, manager |-> FALSE]

InitAddress ==
  /\ aPc = "idle"
  /\ aInput = [address |-> << >>, network |-> BSC]
  /\ aResult = NoCheck

\* a caller checks an address with the guard and with the manager
AddressCheck ==
  /\ aPc = "idle"
  /\ \E address \in AddressTexts, network \in {BSC, Solana} :
       /\ aInput' = [address |-> address, network |-> network]
       /\ aResult' = [guard |-> isValidAddress(address, network),
                      manager |-> validateAddress(address, network)]
  /\ aPc' = "checked"
  /\ UNCHANGED notAddress

\* the caller has both answers
AddressDone ==
  /\ aPc = "checked"
  /\ aPc' = "idle"
  /\ aInput' = [address |-> << >>, network |-> BSC]
  /\ aResult' = NoCheck
  /\ UNCHANGED notAddress

NextAddress ==
  \/ AddressCheck
  \/ AddressDone

(***************************************************************************)
(* transferBSC calls                                                       *)
(***************************************************************************)

\* the configs: the sender's address as ethers writes it, in lower case,
\* without "0x", another key's address and a short text; a valid and a short
\* recipient; the amounts "1", "0.5", "0", "-1", "abc", "" and "1.5.0"; the
\* sender's key with and without "0x", another key and no key
TransferConfigs ==
  LET own == BSCAddressOf(HexKey(1))
      other == BSCAddressOf(HexKey(2))
  IN [fromAddress : {own, ToLowerCase(own), SubSeq(own, 3, Len(own)), other, SubSeq(own, 1, 5)},
      toAddress : {other, SubSeq(other, 1, 5)},
      amount : {<<49>>, <<48, 46, 53>>, <<48>>, <<45, 49>>, <<97, 98, 99>>, << >>,
                <<49, 46, 53, 46, 48>>},
      privateKey : {HexKey(1), SubSeq(HexKey(1), 3, 66), HexKey(2), << >>}]

\* the gas prices getFeeData gives; 0 stands for null
GasPrices == {0, 1, 5}

\* the balances getBalance gives: nothing, and around what "1" and "0.5" need
TransferBalances ==
  { 0 } \cup { ParseEther(a).wei + TransferGas * g + d :
               a \in {<<49>>, <<48, 46, 53>>}, g \in {1, 5}, d \in {-1, 0} }

\* the messages the provider rejects with; "" is an error without a message
ProviderErrors == {"network error", ""}

NoTransfer ==
  [success |-> FALSE, error |-> "", txHash |-> Undefined, toAddress |-> Undefined,
   amount |-> Undefined, threw |-> FALSE]

NoConfig ==
  [fromAddress |-> Undefined, toAddress |-> Undefined, amount |-> Undefined,
   privateKey |-> Undefined]

InitTransfer ==
  /\ fPc = "idle"
  /\ fConfig = NoConfig
  /\ fBalance = 0
  /\ fGas = 0
  /\ fSent = << >>
  /\ fOut = NoTransfer

\* the catch block: the function returns the failure
TransferCaught(message) ==
  /\ fPc' = "returned"
  /\ fOut' = TransferFailed(fConfig, message)

\* transferBSC(config) is called and runs to its first await or to the catch
TransferCall ==
  /\ fPc = "idle"
  /\ \E config \in TransferConfigs :
       /\ fConfig' = config
       /\ IF TransferRefusal(config) # ""
            THEN /\ fPc' = "returned"
                 /\ fOut' = TransferFailed(config, TransferRefusal(config))
            ELSE /\ fPc' = "getBalance"
                 /\ fOut' = NoTransfer
  /\ fSent' = << >>
  /\ UNCHANGED <<fBalance, fGas>>
  /\ UNCHANGED notTransfer

\* provider.getBalance settles
TransferGetBalance ==
  /\ fPc = "getBalance"
  /\ \/ \E balance \in TransferBalances :
          /\ fBalance' = balance
          /\ fPc' = "getFeeData"
          /\ UNCHANGED fOut
     \/ \E message \in ProviderErrors :
          /\ TransferCaught(message)
          /\ UNCHANGED fBalance
  /\ UNCHANGED <<fConfig, fGas, fSent>>
  /\ UNCHANGED notTransfer

\* provider.getFeeData settles; with a gas price the balance is compared and
\* wallet.sendTransaction is called
TransferGetFeeData ==
  /\ fPc = "getFeeData"
  /\ \/ \E gasPrice \in GasPrices :
          IF gasPrice = 0
            THEN /\ TransferCaught("cannot mix BigInt and other types")
                 /\ UNCHANGED <<fGas, fSent>>
          ELSE /\ fGas' = TransferGas * gasPrice
               /\ IF fBalance < ParseEther(fConfig.amount).wei + TransferGas * gasPrice
                    THEN /\ TransferCaught("insufficient balance")
                         /\ UNCHANGED fSent
                    ELSE /\ fSent' = Append(fSent, [to |-> fConfig.toAddress,
                                                    value |-> ParseEther(fConfig.amount).wei])
                         /\ fPc' = "sending"
                         /\ UNCHANGED fOut
     \/ \E message \in ProviderErrors :
          /\ TransferCaught(message)
          /\ UNCHANGED <<fGas, fSent>>
  /\ UNCHANGED <<fConfig, fBalance>>
  /\ UNCHANGED notTransfer

\* wallet.sendTransaction settles
TransferSendSettles ==
  /\ fPc = "sending"
  /\ \/ /\ fPc' = "confirming"
        /\ UNCHANGED fOut
     \/ \E message \in ProviderErrors : TransferCaught(message)
  /\ UNCHANGED <<fConfig, fBalance, fGas, fSent>>
  /\ UNCHANGED notTransfer

\* tx.wait() settles: a receipt of status 1, a receipt of status 0 or none,
\* or a rejection
TransferWaitSettles ==
  /\ fPc = "confirming"
  /\ \/ /\ fPc' = "returned"
        /\ fOut' = TransferSucceeded(fConfig, <<48, 120, 116, 120>>)
     \/ TransferCaught("transaction failed")
     \/ \E message \in ProviderErrors : TransferCaught(message)
  /\ UNCHANGED <<fConfig, fBalance, fGas, fSent>>
  /\ UNCHANGED notTransfer

\* the caller has the result
TransferDone ==
  /\ fPc = "returned"
  /\ fPc' = "idle"
  /\ fConfig' = NoConfig
  /\ fBalance' = 0
  /\ fGas' = 0
  /\ fSent' = << >>
  /\ fOut' = NoTransfer
  /\ UNCHANGED notTransfer

NextTransfer ==
  \/ TransferCall
  \/ TransferGetBalance
  \/ TransferGetFeeData
  \/ TransferSendSettles
  \/ TransferWaitSettles
  \/ TransferDone

(***************************************************************************)
(* Specifications                                                          *)
(***************************************************************************)

Init == InitCipher /\ InitMgr /\ InitIpc /\ InitBal /\ InitTimeout /\ InitImport /\ InitMulti /\ InitStrength /\ InitProvider /\ InitAddress /\ InitTransfer

SpecCipher == Init /\ [][NextCipher]_vars

SpecManager == Init /\ [][NextMgr]_vars

SpecIpc == Init /\ [][NextIpc]_vars

SpecFill == Init /\ [][NextFill]_vars

SpecBalance == Init /\ [][NextBal]_vars

SpecTimeout == Init /\ [][NextTimeout]_vars

SpecImport == Init /\ [][NextImport]_vars

SpecMulti == Init /\ [][NextMulti]_vars

SpecStrength == Init /\ [][NextStrength]_vars

SpecProvider == Init /\ [][NextProvider]_vars

SpecAddress == Init /\ [][NextAddress]_vars

SpecTransfer == Init /\ [][NextTransfer]_vars

(***************************************************************************)
(* Claims                                                                  *)
(***************************************************************************)

\* C1: decrypting the blob of a non-empty plaintext under a password other
\* than the one it was encrypted with throws; it never returns a value.
WrongPasswordThrows ==
  (cPc = "decrypted" /\ Truthy(cPlain) /\ cDecPass # cPass) => ~cOut.ok

\* C2: decrypting the blob of a non-empty plaintext under the (non-empty)
\* password it was encrypted with returns exactly the plaintext, and the blob
\* is the Base64 of salt (16 bytes), IV (16 bytes) and ciphertext in that
\* order, for every salt and IV drawn.
RoundTrip ==
  (cPc \in {"encrypted", "decrypted"} /\ Truthy(cPlain) /\ Truthy(cPass)) =>
     /\ cBlob.ok
     /\ LET raw == Base64Parse(cBlob.value)
        IN /\ SubSeq(raw, 1, 16) = cSalt
           /\ SubSeq(raw, 17, 32) = cIv
           /\ Len(raw) > 32
           /\ (Len(raw) - 32) % BlockBytes = 0
           /\ SubSeq(raw, 33, Len(raw))
                = AesCbcEncrypt(Utf8Parse(cPlain), PBKDF2(Utf8Parse(cPass), cSalt), cIv)
     /\ (cPc = "decrypted" /\ cDecPass = cPass) => (cOut.ok /\ cOut.value = cPlain)

\* witness of C2: a multi-block plaintext came back from decrypt
RoundTripWitness ==
  /\ cPc = "decrypted"
  /\ Len(cPlain) > BlockBytes
  /\ Truthy(cPass)
  /\ cDecPass = cPass
  /\ cOut.ok
  /\ cOut.value = cPlain

\* C3: for every network the result of createWallet carries the wallet's
\* plaintext private key together with encrypted_key, and decryptPrivateKey
\* of that encrypted_key on the same manager returns exactly result.privateKey.
CreateReturnsPrivateKey ==
  (mResult.ok /\ mResult.network \in Networks) =>
     /\ mResult.privateKey # Undefined
     /\ mResult.privateKey = mKey
     /\ mResult.encrypted_key # Undefined
     /\ mDec.called => (mDec.out.ok /\ mDec.out.value = mResult.privateKey)

Contains(s, t) ==
  \E i \in 0..(Len(s) - Len(t)) : SubSeq(s, i + 1, i + Len(t)) = t

\* the secrets behind the record the last call handed to insertWallet
SecretsPassed == {passed.privateKey, passed.password, passed.importData} \ {Undefined}

AddressUnique ==
  \A r1 \in wallets, r2 \in wallets : r1.address = r2.address => r1 = r2

\* C6: the wallets table never holds more than MAX_WALLETS rows
StoreLimit == Cardinality(wallets) <= MAX_WALLETS

\* the entry at position i of the call in progress passes validateAddress
ValidEntry(i) == validateAddress(bInput[i].address, bInput[i].network)

\* the collaborator resolved the lookup of entry i
Resolved(i) == \E j \in 1..Len(bLog) : bLog[j].ev = "settle" /\ bLog[j].idx = i /\ bLog[j].ok

\* the balance it resolved with
ResolvedBalance(i) ==
  bLog[CHOOSE j \in 1..Len(bLog) : bLog[j].ev = "settle" /\ bLog[j].idx = i /\ bLog[j].ok].value

\* C8: getBalances never throws and returns one result per entry, in order,
\* each with the entry's address and network; an entry whose address is
\* invalid or whose lookup was rejected has nativeBalance "0", every other
\* result is the one getBalance returned for the balance the collaborator
\* gave
LenientBatch ==
  bMode = "batch" =>
    /\ bOut # "thrown"
    /\ Len(bResults) <= Len(bInput)
    /\ bPc = "done" => Len(bResults) = Len(bInput)
    /\ \A i \in 1..Len(bResults) :
         /\ bResults[i].address = bInput[i].address
         /\ bResults[i].network = bInput[i].network
         /\ ~ValidEntry(i) => bResults[i].nativeBalance = <<48>>
         /\ IF Resolved(i)
              THEN bResults[i] = BalanceResult(bInput[i].address, bInput[i].network,
                                               ResolvedBalance(i))
              ELSE bResults[i].nativeBalance = <<48>>

\* three entries: the first resolved, the second malformed, the third
\* rejected by the collaborator
LenientBatchWitness ==
  /\ bMode = "batch"
  /\ bPc = "done"
  /\ bOut = "returned"
  /\ Len(bInput) = 3
  /\ Resolved(1)
  /\ ~ValidEntry(2)
  /\ ValidEntry(3) /\ ~Resolved(3)
  /\ Len(bResults) = 3

\* C9: the collaborator is called only for entries that pass
\* validateAddress; getBalance on an address that fails it ends with a
\* thrown error and without any call
ValidateBeforeLookup ==
  /\ \A j \in 1..Len(bLog) : bLog[j].ev = "start" => ValidEntry(bLog[j].idx)
  /\ (bMode = "single" /\ ~ValidEntry(1)) =>
       /\ bLog = << >>
       /\ bPc = "done" => bOut = "thrown"

\* getBalance on a malformed address has thrown
ValidateBeforeLookupWitness ==
  /\ bMode = "single"
  /\ bPc = "done"
  /\ ~ValidEntry(1)
  /\ bOut = "thrown"
  /\ bLog = << >>

\* the collaborator calls of the run and their settling, in order
Lookups == SelectSeq(bLog, LAMBDA e : e.ev \in {"start", "settle"})

\* C10: in getBalances a lookup starts only when every earlier one has
\* settled, the lookups follow the input order, and no entry is looked up
\* twice
SequentialLookups ==
  bMode = "batch" =>
    /\ \A j \in 1..Len(Lookups) :
         IF j % 2 = 1 THEN Lookups[j].ev = "start"
         ELSE Lookups[j].ev = "settle" /\ Lookups[j].idx = Lookups[j - 1].idx
    /\ \A j \in 1..Len(Lookups), k \in 1..Len(Lookups) :
         (j < k /\ Lookups[j].ev = "start" /\ Lookups[k].ev = "start")
           => Lookups[j].idx < Lookups[k].idx

\* a rejected lookup was followed by the lookup of the next entry
SequentialLookupsWitness ==
  /\ bMode = "batch"
  /\ bPc = "done"
  /\ Len(Lookups) = 4
  /\ ~Lookups[2].ok
  /\ Lookups[3].idx = Lookups[1].idx + 1

\* C11: in getBalances the loop goes from one entry to the next one only
\* through the delay: every step that moves to a later entry of the list
\* is the step that ends the 300 ms wait
DelayBetweenCalls ==
  [][(bMode = "batch" /\ bIdx' = bIdx + 1 /\ bIdx' <= Len(bInput)) => bPc = "delay"]_vars

\* C12: the wallet:balance handler never waits longer than BALANCE_TIMEOUT_MS
\* for a lookup: its reply comes at most that long after the call; a reply
\* given while the lookup was unsettled comes exactly then and is a failure
\* with the timeout message, which is none of the collaborators' messages
\* for network and server failures
ReplyWithinTimeout ==
  /\ tPc = "waiting" => tClock <= BALANCE_TIMEOUT_MS
  /\ tPc = "replied" =>
       /\ tReply.at <= BALANCE_TIMEOUT_MS
       /\ tReply.byTimer =>
            /\ tReply.at = BALANCE_TIMEOUT_MS
            /\ ~tReply.success
            /\ tReply.error = TimeoutMessage
       /\ tReply.error = TimeoutMessage => tReply.byTimer
  /\ TimeoutMessage \notin
       { LookupErrorMessage(n, k) : n \in {BSC, Solana}, k \in FailureKinds }

\* the timer fired on a lookup that was still probing endpoints
ReplyWithinTimeoutWitness ==
  /\ tPc = "replied"
  /\ tReply.byTimer
  /\ tReply.at = BALANCE_TIMEOUT_MS
  /\ tReply.error = TimeoutMessage

\* C13: after the timeout reply the lookup has no request in progress
NoLeakAfterTimeout ==
  (tPc = "replied" /\ tReply.byTimer) => ~LookupInProgress

\* C14: a getBalance call with a network other than BSC and Solana ends with
\* the unsupported-network error, which is not the error of an invalid
\* address
UnsupportedNetworkError ==
  (bMode = "single" /\ bPc = "done" /\ bInput[1].network \notin {BSC, Solana}) =>
    /\ bOut = "thrown"
    /\ bErr = WrapFailure(UnsupportedNetworkMessage)
    /\ bErr # WrapFailure(InvalidAddressMessage)

\* C15: a Solana import by private key succeeds for the Base64 text and for
\* the JSON array of a 64-byte secret key, with the same address for both,
\* and fails for every input that does not decode to 64 bytes
SolanaKeyEncodings ==
  (imLast.called /\ imLast.call.args \in SolanaKeyArgs) =>
    LET data == imLast.call.args.importData
        key == SolSecretKey(SolSeed(1))
    IN /\ data \in {BufferToBase64(key), JsonArray(key)} =>
            /\ imLast.res.ok
            /\ imLast.res.address = ToBase58(SolPublicKey(SolSeed(1)))
       /\ data \in {BufferToBase64(SolSeed(1)), JsonArray(SolSeed(1)),
                    BufferToBase64(key \o <<7>>)} => ~imLast.res.ok

\* the key text without surrounding whitespace and without the 0x prefix
StripKey(data) ==
  LET t == Trim(data)
  IN IF StartsWith0x(t) THEN SubSeq(t, 3, Len(t)) ELSE t

\* C16: a BSC import by private key succeeds only if the trimmed text, with
\* 0x put in front when missing, is 0x and 64 hexadecimal digits; then the
\* private key returned is that text; and two imports whose texts differ only
\* in surrounding whitespace or in the 0x prefix end alike, with the same
\* address and private key
BSCKeyNormalised ==
  /\ (imLast.called /\ imLast.call.args \in BSCKeyArgs) =>
       LET s == StripKey(imLast.call.args.importData)
           wellFormed == Len(s) = 64 /\ \A i \in 1..64 : IsHexDigit(s[i])
       IN /\ imLast.res.ok => wellFormed
          /\ ~wellFormed => (~imLast.res.ok /\ imLast.res.error # "")
          /\ imLast.res.ok => imLast.res.privateKey = <<48, 120>> \o ToLowerCase(s)
  /\ ( /\ imLast.called /\ imLast.call.args \in BSCKeyArgs
       /\ imPrev.called /\ imPrev.call.args \in BSCKeyArgs
       /\ StripKey(imLast.call.args.importData) = StripKey(imPrev.call.args.importData) ) =>
       /\ imLast.res.ok = imPrev.res.ok
       /\ imLast.res.address = imPrev.res.address
       /\ imLast.res.privateKey = imPrev.res.privateKey

\* two successful imports of one key, typed differently
BSCKeyNormalisedWitness ==
  /\ imLast.called /\ imLast.call.args \in BSCKeyArgs
  /\ imPrev.called /\ imPrev.call.args \in BSCKeyArgs
  /\ imLast.call.args.importData # imPrev.call.args.importData
  /\ Trim(imLast.call.args.importData) # Trim(imPrev.call.args.importData)
  /\ imLast.call.args.importData # Trim(imLast.call.args.importData)
  /\ StripKey(imLast.call.args.importData) = StripKey(imPrev.call.args.importData)
  /\ imLast.res.ok
  /\ imPrev.res.ok

\* C17: validateAddress(address, 'Solana') is true only for 32 to 44
\* characters of the Base58 alphabet: getBalance, which calls the Solana
\* collaborator only when validateAddress returned true, calls it for such
\* addresses only
SolanaAddressBase58 ==
  (bPc = "lookup" /\ bInput[bIdx].network = Solana) =>
    /\ validateAddress(bInput[bIdx].address, Solana)
    /\ Len(bInput[bIdx].address) >= 32
    /\ Len(bInput[bIdx].address) <= 44
    /\ \A i \in 1..Len(bInput[bIdx].address) : IsBase58Char(bInput[bIdx].address[i])

\* C18: two importWallet calls with type mnemonic and the same mnemonic,
\* network and derivation path end alike and return the same address and the
\* same private key, whatever the instances and whatever the random sources
\* returned
MnemonicDeterminism ==
  ( /\ imLast.called /\ imPrev.called
    /\ imLast.call.args \in MnemonicArgs
    /\ imLast.call.args = imPrev.call.args ) =>
    /\ imLast.res.ok = imPrev.res.ok
    /\ imLast.res.address = imPrev.res.address
    /\ imLast.res.privateKey = imPrev.res.privateKey

\* the same mnemonic imported on two instances: the ids and the encrypted
\* keys differ
MnemonicDeterminismWitness ==
  /\ imLast.called /\ imPrev.called
  /\ imLast.call.args \in MnemonicArgs
  /\ imLast.call.args = imPrev.call.args
  /\ imLast.call.password # imPrev.call.password
  /\ imLast.res.ok /\ imPrev.res.ok
  /\ imLast.res.id # imPrev.res.id
  /\ imLast.res.encrypted_key # imPrev.res.encrypted_key
  /\ imLast.res.address = imPrev.res.address

\* the channels of the wallet handlers
Channels ==
  {"wallet:create", "wallet:import", "wallet:list", "wallet:balance",
   "wallet:getById", "wallet:updateName", "wallet:delete"}

\* C19: every reply of a wallet handler is a success with data that is not
\* undefined, or a failure with a message; this is what isSuccessResponse
\* and isErrorResponse accept
ResponseShape ==
  resp.channel # "none" =>
    /\ resp.channel \in Channels
    /\ \/ resp.success = TRUE /\ resp.dataDefined
       \/ resp.success = FALSE /\ resp.error # ""

\* wallet:getById for an id of no row answers success with null
ResponseShapeWitness ==
  /\ resp.channel = "wallet:getById"
  /\ resp.success
  /\ resp.dataDefined
  /\ wallets # {}
  /\ \A r \in wallets : resp.data # r

\* the encrypted keys the handlers store, and for each the outcome of
\* decrypting it on an instance with the caller's password and recovering
\* the address for the network of the wallet
StoredKeys ==
  { p.wallet : p \in { q \in ({ CreatePrepared[i] : i \in CreateInputs }
                            \cup { ImportPrepared[i] : i \in ImportInputs }) : q.ok } }

RecoverStored(w) ==
  LET dec == decryptPrivateKey(NewWalletManager(StrongPassword).value, w.encrypted_key)
  IN IF ~dec.ok THEN dec
     ELSE IF w.network = BSC THEN recoverBSCWallet(dec.value)
     ELSE recoverSolanaWallet(dec.value)

Recovered ==
  [k \in { <<w.network, w.encrypted_key>> : w \in StoredKeys } |->
     RecoverStored(CHOOSE w \in StoredKeys : <<w.network, w.encrypted_key>> = k)] @@ << >>

\* C20: for every row of the table, decrypting its encrypted_key on an
\* instance with the password it was made under and recovering the address
\* from the key alone gives the row's address
RecoverGivesAddress ==
  \A r \in wallets :
    /\ <<r.network, r.encrypted_key>> \in DOMAIN Recovered
    /\ Recovered[<<r.network, r.encrypted_key>>] = Ok(r.address)

\* a created and an imported wallet, one of each network, are in the table
RecoverGivesAddressWitness ==
  /\ \E r \in wallets : r.network = BSC
  /\ \E r \in wallets : r.network = Solana
  /\ resp.success
  /\ resp.channel \in {"wallet:create", "wallet:import"}

\* C21: createMultipleWallets calls createWallet for the indices 1, 2, ... in
\* order, one call each; when it returns, the list has count wallets named
\* prefix_1 .. prefix_count in that order; when a call fails the error
\* leaves createMultipleWallets and no later index has been attempted
SequentialCreate ==
  /\ xAttempts = [j \in 1..Len(xAttempts) |-> j]
  /\ Len(xAttempts) <= xArgs.count
  /\ xOut = "returned" =>
       /\ Len(xWallets) = xArgs.count
       /\ Len(xAttempts) = xArgs.count
       /\ \A j \in 1..Len(xWallets) :
            xWallets[j].name = DefaultedPrefix(xArgs.namePrefix) \o <<95>> \o Decimal(j)
  /\ xOut = "thrown" =>
       /\ xPc = "done"
       /\ Len(xAttempts) = Len(xWallets) + 1

\* a batch of at least two wallets was returned
SequentialCreateWitness ==
  /\ xOut = "returned"
  /\ xArgs.count >= 2
  /\ Len(xWallets) = xArgs.count

\* C22: encrypt throws when the plaintext or the password is empty, and
\* decrypt throws when the text or the password is empty; no value comes back
EmptyInputsThrow ==
  /\ (cPc \in {"encrypted", "decrypted"} /\ (cPlain = << >> \/ cPass = << >>)) =>
       (~cBlob.ok /\ cBlob.value = << >>)
  /\ (cPc \in {"decrypted", "decryptedText"} /\ (cBlob.value = << >> \/ cDecPass = << >>)) =>
       (~cOut.ok /\ cOut.value = << >>)

\* an empty plaintext was given to encrypt with a password, and an empty
\* text to decrypt
EmptyInputsThrowWitness ==
  \/ cPc = "encrypted" /\ cPlain = << >> /\ cPass # << >> /\ ~cBlob.ok
  \/ cPc = "decryptedText" /\ cBlob.value = << >> /\ cDecPass # << >> /\ ~cOut.ok

MnemonicIsBackup ==
  (mgr.held /\ mResult.ok /\ Present(mResult.mnemonic)) =>
    \A uuid \in Uuids, salt \in MgrSalts, iv \in MgrIvs :
      LET again == importWallet(mgr.encryptionKey, mResult.name, mResult.network,
                                mResult.mnemonic, "mnemonic", Undefined, uuid, salt, iv)
      IN again.ok /\ again.address = mResult.address

\* C25: getAvailableBSCProvider probes the endpoints in list order, one at a
\* time; it returns the provider of the first endpoint whose probe succeeds
\* within the connection timeout and probes none after it; it throws the
\* all-nodes-unavailable error if and only if every probe failed or timed out
ProbesInOrder ==
  /\ \A i \in 1..Len(pProbed) : pProbed[i] = i
  /\ Len(pProbed) <= BSC_ENDPOINTS
  /\ \A i \in 1..Len(pErrors) : pErrors[i].endpoint = i
  /\ pPc = "probing" => Len(pProbed) = Len(pErrors) + 1 /\ pEp = Len(pProbed)
  /\ pPc = "returned" =>
       /\ pOut.provider = Len(pProbed)
       /\ Len(pErrors) = pOut.provider - 1
       /\ pElapsed <= RPC_CONNECTION_TIMEOUT
       /\ pOut.error = ""
  /\ pPc = "thrown" => pOut.error = AllNodesUnavailableMessage /\ pOut.provider = 0
  /\ pPc \in {"returned", "thrown"} =>
       (pPc = "thrown" <=> Len(pErrors) = BSC_ENDPOINTS)

\* the third endpoint's provider was returned after one probe failed and one
\* timed out
ProbesInOrderWitness ==
  /\ pPc = "returned"
  /\ pOut.provider = 3
  /\ pErrors[1].message = ConnectionTimeoutMessage
  /\ pErrors[2].message \in ProbeErrorMessages
  /\ pProbed = <<1, 2, 3>>

\* C26: in the wallet:balance handler whichever of the lookup and the 10 s
\* timer settles second has no effect: the handler returns exactly one
\* response, which neither a lookup result after the timeout nor a timer
\* firing after the lookup settled changes
SecondSettlesWithoutEffect ==
  [][ /\ tReplies' <= 1
      /\ tPc' = "replied" => tReplies' = 1
      /\ (tPc = "replied" /\ tPc' = "replied") => tReply' = tReply ]_vars

\* the timer fired after the lookup had given the balance, and the reply is
\* still the balance
SecondSettlesWithoutEffectWitness ==
  /\ tPc = "replied"
  /\ tReplies = 1
  /\ tReply.success
  /\ tReply.at < BALANCE_TIMEOUT_MS
  /\ tTimer = "fired"
  /\ tClock = BALANCE_TIMEOUT_MS

\* what wallet:getById answers for id: the address of the record, or nothing
\* when the answer is null
AnsweredAddress(rows, id) ==
  LET g == WalletGetById(rows, id)
  IN IF g.success /\ Null # g.data THEN {g.data.address} ELSE {}

\* C27: after a successful wallet:create or wallet:import reply with id i and
\* address a, wallet:getById(i) answers a record with address a until a
\* wallet:delete(i) succeeds, and null after it: the reply's id answers with
\* the reply's address, every step but a successful delete keeps what each
\* id answers, a successful delete turns one id's answer into null and
\* keeps the others, and an id starts to answer only through such a reply
RecordUntilDeleted ==
  [][ LET created == resp'.channel \in {"wallet:create", "wallet:import"} /\ resp'.success
          deleted == resp'.channel = "wallet:delete" /\ resp'.success
      IN /\ created => AnsweredAddress(wallets', resp'.data.id) = {resp'.data.address}
         /\ \A r \in wallets :
              \/ AnsweredAddress(wallets', r.id) = {r.address}
              \/ /\ deleted
                 /\ AnsweredAddress(wallets', r.id) = {}
                 /\ \A q \in wallets \ {r} : AnsweredAddress(wallets', q.id) = {q.address}
         /\ deleted => \E r \in wallets : AnsweredAddress(wallets', r.id) = {}
         /\ \A r \in wallets' :
              (\A q \in wallets : q.id # r.id) => (created /\ resp'.data.id = r.id)
    ]_<<wallets, now, resp.channel, resp.success>>

\* a wallet:delete succeeded while another record stays, and the ids a caller
\* can name that belong to no record answer null
RecordUntilDeletedWitness ==
  /\ resp.channel = "wallet:delete"
  /\ resp.success
  /\ wallets # {}
  /\ AnsweredAddress(wallets, WalletId(0, 2)) = {}
  /\ \A r \in wallets : AnsweredAddress(wallets, r.id) = {r.address}

\* the frame of wallet:updateName and wallet:delete for the names a caller
\* may give: the reply is success exactly when a record has the id;
\* updateName changes the name of that record and nothing else, delete
\* removes that record and nothing else, and a failure leaves the table
FrameFor(names) ==
  \A id \in CallerIds :
    LET hit == { r \in wallets : r.id = id }
        d == WalletDelete(wallets, id)
    IN /\ d.resp.success <=> hit # {}
       /\ d.rows = wallets \ hit
       /\ Cardinality(hit) <= 1
       /\ \A name \in names :
            LET u == WalletUpdateName(wallets, id, name)
            IN /\ u.resp.success <=> hit # {}
               /\ u.rows = IF u.resp.success
                             THEN (wallets \ hit) \cup { [r EXCEPT !.name = name] : r \in hit }
                             ELSE wallets

GuardAgreesWithManager ==
  aPc = "checked" => aResult.guard = aResult.manager

\* C30: transferBSC sends a transaction only if both addresses are valid BSC
\* addresses, the amount is greater than 0, the address of the private key is
\* fromAddress but for the case of its letters, and the balance covers the
\* amount and the estimated gas; in every other case it returns success =
\* false with an error and has sent nothing; it never throws
SendOnlyWhenChecked ==
  /\ Len(fSent) <= 1
  /\ fSent # << >> =>
       /\ isAddress(fConfig.fromAddress)
       /\ isAddress(fConfig.toAddress)
       /\ ParseEther(fConfig.amount).ok
       /\ ParseEther(fConfig.amount).wei > 0
       /\ recoverBSCWallet(fConfig.privateKey).ok
       /\ ToLowerCase(recoverBSCWallet(fConfig.privateKey).value)
            = ToLowerCase(fConfig.fromAddress)
       /\ fBalance >= ParseEther(fConfig.amount).wei + fGas
       /\ fGas > 0
       /\ fSent[1] = [to |-> fConfig.toAddress, value |-> ParseEther(fConfig.amount).wei]
  /\ (fPc = "returned" /\ fSent = << >>) => (~fOut.success /\ fOut.error # "")
  /\ fPc = "returned" => (~fOut.threw /\ (fOut.success \/ fOut.error # ""))
  /\ fPc \in {"sending", "confirming"} => fSent # << >>

\* a transfer was sent and confirmed from an address given in lower case,
\* with a balance of exactly the amount and the gas
SendOnlyWhenCheckedWitness ==
  /\ fPc = "returned"
  /\ fOut.success
  /\ Len(fSent) = 1
  /\ fConfig.fromAddress # BSCAddressOf(HexKey(1))
  /\ fBalance = ParseEther(fConfig.amount).wei + fGas

====
